---- MODULE Spec2Model ----
(***************************************************************************)
(* JettBot voice pipeline: the control loop of VoicePipeline.run, the      *)
(* streaming synthesizer of VoicePipeline.speak_streaming with its         *)
(* playback worker, and the wake gate of WakeWordDetector.                 *)
(*                                                                         *)
(* Text is a sequence of one-character strings, so that the regular        *)
(* expression, strip(), rfind() and the slices of speak_streaming are      *)
(* computed character by character.                                        *)
(*                                                                         *)
(* Specifications:                                                         *)
(*   Spec       the threads of one run(): the control loop, the wake       *)
(*              detector's audio callback, record_audio's audio callback,  *)
(*              one playback worker per speak_streaming call, and the      *)
(*              interrupt (KeyboardInterrupt) delivered to the main thread *)
(*   FairSpec   Spec with the fairness of the thread scheduler             *)
(*   SynthSpec  the fragment loop of speak_streaming alone, over every     *)
(*              fragment sequence up to MaxFrags fragments                 *)
(*   GateSpec   the wake detector's audio callback with its clock, over    *)
(*              every sequence of frames up to MaxHits above the threshold *)
(*   PlaySpec   one speak_streaming call with its playback worker, under   *)
(*              the fairness of the thread scheduler                       *)
(*   RecSpec    one record_audio call and run()'s handling of its result;  *)
(*              the audio driver may stop delivering frames                *)
(*   RouteSpec  QueryRouter: the router built by _init_router or directly, *)
(*              and route / generate_response over a set of queries        *)
(*   SecSpec    ContainerController.execute: its allowlists, rate limit    *)
(*              and audit log, and AuditLogger.get_recent                  *)
(*   RateSpec   execute with the clock advancing, for the sliding window   *)
(*   AuditSpec  AuditLogger.log over every short text, for redact_secrets  *)
(*   EndSpec    record_audio over silence durations and sample formats     *)
(*   WakeSpec   run() with the wake word and the detector's clock          *)
(*   CloudSpec  CloudLLM.stream over the outcomes of the API call          *)
(*   DiskSpec   execute while the disk refuses and accepts audit writes    *)
(***************************************************************************)
EXTENDS Integers, Sequences, FiniteSets, TLC

----------------------------------------------------------------------------
(* Bounds of the model *)

\* interactions (entries into PROCESSING) in one run
MaxCalls == 2
\* frames waiting in VoicePipeline._audio_queue
MaxQueue == 1
\* stands for max_chunks = int(MAX_RECORD_SECONDS * SAMPLE_RATE / BLOCK_SIZE)
MaxChunks == 6
\* stands for silence_chunks_needed = int(SILENCE_DURATION * SAMPLE_RATE / BLOCK_SIZE)
SilenceChunksNeeded == 2
\* the latest reading of the clock in WakeSpec, in seconds
MaxWakeNow == 6
\* events of one API call in CloudSpec
MaxApi == 3
\* fragments of a generated response in SynthSpec
MaxFrags == 3
\* the latest reading of the clock in GateSpec, in seconds
MaxNow == 7
\* frames scored above the threshold in GateSpec
MaxHits == 3
\* execute calls in one behaviour of SecSpec
MaxExec == 2
\* the largest rate_limit a controller is constructed with
MaxRate == 2
\* the latest reading of time.time(), in seconds
MaxSecNow == 120
\* the seconds between two readings of time.time()
TickSeconds == 30
\* the largest n get_recent is called with
MaxRecent == 2
\* execute calls in one behaviour of RateSpec
MaxRateCalls == 4
\* symbols in the params argument of AuditLogger.log in AuditSpec
MaxText == 3
\* execute calls in one behaviour of DiskSpec
MaxDiskCalls == 3

(* Constants of the program *)

\* pipeline.py:367  MIN_FIRST_CHUNK = 20
MIN_FIRST_CHUNK == 20
\* pipeline.py:423  len(buffer) >= 40
EARLY_FLUSH_CAP == 40
\* pipeline.py:425  split_idx < 10
MIN_SPLIT_IDX == 10
\* pipeline.py:295  len(audio_chunks) < 5
MIN_AUDIO_CHUNKS == 5
\* pipeline.py:73  SAMPLE_RATE = 16000
SAMPLE_RATE == 16000
\* pipeline.py:75  BLOCK_SIZE = 1024
BLOCK_SIZE == 1024
\* pipeline.py:79  SILENCE_DURATION = 0.5, in milliseconds
SILENCE_DURATION_MS == 500
\* pipeline.py:80  MAX_RECORD_SECONDS = 30
MAX_RECORD_SECONDS == 30
\* wake_word.py:45  COOLDOWN_SECONDS = 2.0
COOLDOWN_SECONDS == 2
\* wake_word.py:44  DEFAULT_THRESHOLD = 0.5, in tenths
DEFAULT_THRESHOLD == 5
\* wrapper.py:37  rate_limit: int = 10
DEFAULT_RATE_LIMIT == 10

----------------------------------------------------------------------------
(* Text: the string operations speak_streaming uses *)

\* str.strip() / \s : the whitespace of the model's alphabet
IsSpace(c) == c = " "

\* buffer[:n]
Take(s, n) == SubSeq(s, 1, n)

\* buffer[n:]
Drop(s, n) == SubSeq(s, n + 1, Len(s))

\* str.lstrip()
LStrip(s) ==
  LET keep == {i \in 1..Len(s) : ~IsSpace(s[i])}
  IN  IF keep = {} THEN <<>>
      ELSE Drop(s, (CHOOSE i \in keep : \A j \in keep : i <= j) - 1)

\* str.rstrip()
RStrip(s) ==
  LET keep == {i \in 1..Len(s) : ~IsSpace(s[i])}
  IN  IF keep = {} THEN <<>>
      ELSE Take(s, CHOOSE i \in keep : \A j \in keep : j <= i)

\* str.strip()
Strip(s) == LStrip(RStrip(s))

\* str.lstrip(','): every leading comma is removed
LStripComma(s) ==
  LET keep == {i \in 1..Len(s) : s[i] # ","}
  IN  IF keep = {} THEN <<>>
      ELSE Drop(s, (CHOOSE i \in keep : \A j \in keep : i <= j) - 1)

\* str.rfind(','): the 0-based index of the last comma, -1 when there is none
RFindComma(s) ==
  LET at == {i \in 1..Len(s) : s[i] = ","}
  IN  IF at = {} THEN -1
      ELSE (CHOOSE i \in at : \A j \in at : j <= i) - 1

\* ',' in buffer
HasComma(s) == \E i \in 1..Len(s) : s[i] = ","

\* mutant of EndsSentence: the pattern [.!?]$ without the trailing \s*
EndsSentenceNoSpace(s) == s # <<>> /\ s[Len(s)] \in {".", "!", "?"}

\* re.search(r'[.!?]\s*$', buffer)
EndsSentence(s) ==
  \E i \in 1..Len(s) :
    /\ s[i] \in {".", "!", "?"}
    /\ \A j \in (i + 1)..Len(s) : IsSpace(s[j])

\* mutant of EarlySplitIdx: split_idx <= 10 instead of split_idx < 10
EarlySplitIdxOffByOne(s) ==
  LET split_idx == RFindComma(s)
  IN  IF split_idx = -1 \/ split_idx <= MIN_SPLIT_IDX THEN Len(s) ELSE split_idx

\* split_idx = buffer.rfind(','); if split_idx == -1 or split_idx < 10: len(buffer)
EarlySplitIdx(s) ==
  LET split_idx == RFindComma(s)
  IN  IF split_idx = -1 \/ split_idx < MIN_SPLIT_IDX THEN Len(s) ELSE split_idx

\* mutant of ConsumeChunk: the first-unit rule is applied to every unit
ConsumeChunkAlwaysEager(buf, sent, chunk) ==
  LET b == buf \o chunk
  IN  IF EndsSentence(b)
      THEN [unit |-> Strip(b), buffer |-> <<>>]
      ELSE IF Len(b) >= MIN_FIRST_CHUNK
                /\ (HasComma(b) \/ Len(b) >= EARLY_FLUSH_CAP)
           THEN LET split_idx == EarlySplitIdx(b)
                    chunk_to_speak == Strip(Take(b, split_idx))
                IN  IF chunk_to_speak # <<>>
                    THEN [unit |-> chunk_to_speak,
                          buffer |-> Strip(LStripComma(Drop(b, split_idx)))]
                    ELSE [unit |-> <<>>, buffer |-> b]
           ELSE [unit |-> <<>>, buffer |-> b]

\* One pass of the body of `for chunk in text_generator` after buffer += chunk:
\* the unit handed to _synthesize_chunk (<<>> when there is none) and the
\* buffer the pass leaves.
ConsumeChunk(buf, sent, chunk) ==
  LET b == buf \o chunk
  IN  IF EndsSentence(b)
      THEN [unit |-> Strip(b), buffer |-> <<>>]
      ELSE IF ~sent /\ Len(b) >= MIN_FIRST_CHUNK
                /\ (HasComma(b) \/ Len(b) >= EARLY_FLUSH_CAP)
           THEN LET split_idx == EarlySplitIdx(b)
                    chunk_to_speak == Strip(Take(b, split_idx))
                IN  IF chunk_to_speak # <<>>
                    THEN [unit |-> chunk_to_speak,
                          buffer |-> Strip(LStripComma(Drop(b, split_idx)))]
                    ELSE [unit |-> <<>>, buffer |-> b]
           ELSE [unit |-> <<>>, buffer |-> b]

\* mutant of FinalUnit: the remainder is dropped
FinalUnitDropped(buf) == <<>>

\* if buffer.strip(): _synthesize_chunk(buffer.strip())   (after the loop)
FinalUnit(buf) == Strip(buf)

----------------------------------------------------------------------------
(* State *)

VARIABLES
  useWake,          \* VoicePipeline.use_wake_word
  pc,               \* where the main thread is inside run()
  pend,             \* the exception the main thread is unwinding with
  intAt,            \* where the interrupt reached the main thread ("none" before)
  caught,           \* this interaction's exception reached `except Exception`
  state,            \* VoicePipeline._state
  running,          \* VoicePipeline._running
  ncalls,           \* interactions begun (entries into PROCESSING)
  wake_event,       \* VoicePipeline._wake_event
  active,           \* WakeWordDetector._active
  detRunning,       \* WakeWordDetector._running
  wakeStream,       \* WakeWordDetector._stream is open and started
  cbPc,             \* where the wake detector's audio callback is
  recOpen,          \* record_audio's sd.InputStream is open
  mic_queue,        \* VoicePipeline._audio_queue
  chunk_count,      \* record_audio: chunk_count = len(audio_chunks)
  silence_chunks,   \* record_audio: silence_chunks
  has_speech,       \* record_audio: has_speech
  audio_queue,      \* speak_streaming: audio_queue, one per call
  wpc,              \* where each call's playback_worker is
  playback_done,    \* speak_streaming: playback_done, one per call
  played,           \* the buffers each worker has handed to sd.play, in order
  device,           \* the buffer the output device is playing: <<call, k>> or <<>>
  tokens,           \* the fragments text_generator yields in this call
  tpos,             \* how many of them the for loop has taken
  buffer,           \* speak_streaming: buffer
  first_chunk_sent, \* speak_streaming: first_chunk_sent
  units,            \* the texts handed to _synthesize_chunk in this call, in order
  engine,           \* WakeWordDetector._model: "reset", or "live" once a frame was fed
  now,              \* time.monotonic(), read by the wake callback (GateSpec)
  last_trigger_time,\* WakeWordDetector._last_trigger_time (GateSpec)
  hits,             \* the frames scored above the threshold so far (GateSpec)
  router_mode,      \* VoicePipeline.router_mode, then QueryRouter.mode
  cloud_available,  \* CloudLLM.available: an API key is configured
  router,           \* VoicePipeline._router is not None
  local_fn,         \* QueryRouter._local_fn: "none" for None, else the function
  cloud_fn,         \* QueryRouter._cloud_fn: "none" for None, else the function
  query,            \* the text of the query being routed
  served,           \* what consuming route(text) did: the backend function that
                    \* ran, or the exception raised ("none" before the call)
  llm_backend,      \* PipelineMetrics.llm_backend of the interaction
  dev_mode,         \* ContainerController.dev_mode
  rate_limit,       \* ContainerController.rate_limit
  sec_now,          \* time.time(), in seconds
  disk_ok,          \* a write to the audit log file succeeds
  operation_times,  \* ContainerController._operation_times
  audit_file,       \* the content of AuditLogger.log_file
  xpc,              \* where the caller's thread is inside execute
  cur,              \* the arguments of the execute call in progress
  exc,              \* the exception execute is handling
  result,           \* how the last execute call ended: "ok" or the exception
  executed,         \* the operations _execute_portainer has performed
  passed,           \* the times at which _check_rate_limit let a request pass
  written,          \* the entries AuditLogger.log has written, in order
  recent,           \* the argument and the return value of the last get_recent
  nexec,            \* execute calls begun
  log_args,         \* the arguments of the last call of AuditLogger.log made
                    \* by a caller other than execute
  silence_ms,       \* VoicePipeline.SILENCE_DURATION, in milliseconds
  sample_rate,      \* VoicePipeline.SAMPLE_RATE, in samples per second
  block_size,       \* VoicePipeline.BLOCK_SIZE, in samples per frame
  api_key,          \* CloudLLM._api_key: "none" for None, "empty" for "", or "set"
  sdk_installed,    \* `import anthropic` succeeds
  client,           \* CloudLLM._client is not None
  api_script,       \* what the API call does, event by event (CloudSpec)
  api_pos,          \* the events of api_script that have happened
  cloud_pc,         \* where CloudLLM.stream is, or how it ended
  cloud_out         \* the fragments CloudLLM.stream has yielded

ctlVars   == <<useWake, pc, pend, intAt, caught, state, running, ncalls>>
gateVars  == <<now, last_trigger_time, hits>>
wakeVars  == <<wake_event, active, detRunning, wakeStream, cbPc, engine, gateVars>>
recVars   == <<recOpen, mic_queue, chunk_count, silence_chunks, has_speech>>
playVars  == <<audio_queue, wpc, playback_done, played, device>>
synthVars == <<tokens, tpos, buffer, first_chunk_sent, units>>
routeVars == <<router_mode, cloud_available, router, local_fn, cloud_fn,
               query, served, llm_backend>>
secVars   == <<dev_mode, rate_limit, sec_now, disk_ok, operation_times,
               audit_file, xpc, cur, exc, result, executed, passed, written,
               recent, nexec>>
auditVars == <<log_args>>
cfgVars   == <<silence_ms, sample_rate, block_size>>
cloudVars == <<api_key, sdk_installed, client, api_script, api_pos, cloud_pc,
               cloud_out>>
restVars  == <<cfgVars, cloudVars>>
svcVars   == <<routeVars, secVars, auditVars, restVars>>
vars      == <<ctlVars, wakeVars, recVars, playVars, synthVars, svcVars>>

Calls == 1..MaxCalls

\* class PipelineState(Enum)
PipelineState == {"WAITING", "LISTENING", "PROCESSING", "SPEAKING"}

\* positions of the main thread inside record_audio
RecPcs == {"rec_open", "rec_loop", "rec_close"}

\* positions of the main thread inside the try block of run() that calls
\* process_query, before its finally clause
QueryPcs == {"transcribe", "generate", "spk_loop", "spk_put", "spk_wait", "except"}

\* positions of the main thread inside the finally clause of that try block
FinallyPcs == {"fin_reset", "fin_set", "fin_state"}

\* the None that ends a playback queue
Sentinel == 0

\* the responses a backend streams in Spec
RespOne == << <<"O", "k", ".">> >>
RespTwo == << <<"H", "i", ".", " ">>, <<"B", "y", "e">> >>
\* ["It's", " 3", " PM", "."]
RespTime == << <<"I", "t", "'", "s">>, <<" ", "3">>, <<" ", "P", "M">>, <<".">> >>
PipeResponses == {RespOne, RespTwo, RespTime}

\* VoicePipeline.__init__ for the router: router_mode = "local" by default,
\* _router = None, _cloud_llm = None
RouterIdle ==
  /\ router_mode = "local"
  /\ cloud_available = FALSE
  /\ router = FALSE
  /\ local_fn = "none"
  /\ cloud_fn = "none"
  /\ query = <<>>
  /\ served = "none"
  /\ llm_backend = "none"

\* the state ContainerController(dev_mode=dm, rate_limit=rl, audit_dir=<an
\* empty directory>) leaves
SecFresh(dm, rl) ==
  /\ dev_mode = dm
  /\ rate_limit = rl
  /\ sec_now = 0
  /\ disk_ok = TRUE
  /\ operation_times = <<>>
  /\ audit_file = <<>>
  /\ xpc = "idle"
  /\ cur = [action |-> <<>>, container |-> <<>>, kwargs |-> <<>>]
  /\ exc = [type |-> "none", msg |-> <<>>]
  /\ result = "none"
  /\ executed = <<>>
  /\ passed = <<>>
  /\ written = <<>>
  /\ recent = [n |-> 0, lines |-> <<>>]
  /\ nexec = 0
  /\ log_args = [status |-> <<>>, action |-> <<>>, params |-> <<>>,
                 error |-> <<>>]

\* ContainerController() with its defaults
SecIdle == SecFresh(TRUE, DEFAULT_RATE_LIMIT)

\* the class attributes of VoicePipeline that configure record_audio
CfgIdle ==
  /\ silence_ms = SILENCE_DURATION_MS
  /\ sample_rate = SAMPLE_RATE
  /\ block_size = BLOCK_SIZE

\* CloudLLM() with a key configured, before stream is called
CloudIdle ==
  /\ api_key = "set"
  /\ sdk_installed = TRUE
  /\ client = FALSE
  /\ api_script = <<>>
  /\ api_pos = 0
  /\ cloud_pc = "idle"
  /\ cloud_out = <<>>

\* the services beside the voice loop, before their first use
SvcIdle == RouterIdle /\ SecIdle /\ CfgIdle /\ CloudIdle

\* the state of the voice loop that run() and the constructors leave before
\* run() is called
VoiceIdle ==
  /\ useWake \in BOOLEAN
  /\ pc = "start"
  /\ pend = "none"
  /\ intAt = "none"
  /\ caught = FALSE
  /\ state = "LISTENING"
  /\ running = FALSE
  /\ ncalls = 0
  /\ wake_event = FALSE
  /\ active = FALSE
  /\ detRunning = FALSE
  /\ wakeStream = FALSE
  /\ cbPc = "idle"
  /\ engine = "reset"
  /\ now = COOLDOWN_SECONDS
  /\ last_trigger_time = 0
  /\ hits = <<>>
  /\ recOpen = FALSE
  /\ mic_queue = <<>>
  /\ chunk_count = 0
  /\ silence_chunks = 0
  /\ has_speech = FALSE
  /\ audio_queue = [c \in Calls |-> <<>>]
  /\ wpc = [c \in Calls |-> "none"]
  /\ playback_done = [c \in Calls |-> FALSE]
  /\ played = [c \in Calls |-> <<>>]
  /\ device = <<>>
  /\ tokens = <<>>
  /\ tpos = 0
  /\ buffer = <<>>
  /\ first_chunk_sent = FALSE
  /\ units = <<>>

\* the state run() and the constructors leave before run() is called
PipeInit == VoiceIdle /\ SvcIdle

----------------------------------------------------------------------------
(* The main thread: VoicePipeline.run *)

\* run() up to its try block: _running, _init_wake_word (which constructs the
\* detector, _active set), WakeWordDetector.start and the first state
Start ==
  /\ pc = "start"
  /\ running' = TRUE
  /\ IF useWake
     THEN /\ active' = TRUE
          /\ detRunning' = TRUE
          /\ wakeStream' = TRUE
          /\ state' = "WAITING"
     ELSE /\ state' = "LISTENING"
          /\ UNCHANGED <<active, detRunning, wakeStream>>
  /\ pc' = "loop"
  /\ UNCHANGED <<useWake, pend, intAt, caught, ncalls, wake_event, cbPc>>
  /\ UNCHANGED <<engine, gateVars, svcVars>>
  /\ UNCHANGED <<recVars, playVars, synthVars>>

\* while self._running: and the two tests of self._state
LoopTop ==
  /\ pc = "loop"
  /\ pc' = IF ~running THEN "done"
           ELSE IF state = "WAITING" THEN "wait"
           ELSE IF state # "LISTENING" THEN "sleep"
           ELSE "rec_open"
  /\ UNCHANGED <<useWake, pend, intAt, caught, state, running, ncalls>>
  /\ UNCHANGED <<wakeVars, recVars, playVars, synthVars, svcVars>>

\* time.sleep(0.1); continue
Sleep ==
  /\ pc = "sleep"
  /\ pc' = "loop"
  /\ UNCHANGED <<useWake, pend, intAt, caught, state, running, ncalls>>
  /\ UNCHANGED <<wakeVars, recVars, playVars, synthVars, svcVars>>

\* if self._wake_event.wait(timeout=0.5): ... continue
WaitWake ==
  /\ pc = "wait"
  /\ pc' = IF wake_event THEN "clear" ELSE "loop"
  /\ UNCHANGED <<useWake, pend, intAt, caught, state, running, ncalls>>
  /\ UNCHANGED <<wakeVars, recVars, playVars, synthVars, svcVars>>

\* self._wake_event.clear()
ClearWake ==
  /\ pc = "clear"
  /\ wake_event' = FALSE
  /\ pc' = "pause"
  /\ UNCHANGED <<useWake, pend, intAt, caught, state, running, ncalls>>
  /\ UNCHANGED <<active, detRunning, wakeStream, cbPc, engine, gateVars, svcVars>>
  /\ UNCHANGED <<recVars, playVars, synthVars>>

\* mutant of Pause: the call leaves _active as it is
PauseSkipped ==
  /\ pc = "pause"
  /\ pc' = "to_listening"
  /\ UNCHANGED <<useWake, pend, intAt, caught, state, running, ncalls>>
  /\ UNCHANGED <<wakeVars, recVars, playVars, synthVars, svcVars>>

\* self.wake_word_detector.pause()
Pause ==
  /\ pc = "pause"
  /\ active' = FALSE
  /\ pc' = "to_listening"
  /\ UNCHANGED <<useWake, pend, intAt, caught, state, running, ncalls>>
  /\ UNCHANGED <<wake_event, detRunning, wakeStream, cbPc, engine, gateVars, svcVars>>
  /\ UNCHANGED <<recVars, playVars, synthVars>>

\* self._state = PipelineState.LISTENING; continue
ToListening ==
  /\ pc = "to_listening"
  /\ state' = "LISTENING"
  /\ pc' = "loop"
  /\ UNCHANGED <<useWake, pend, intAt, caught, running, ncalls>>
  /\ UNCHANGED <<wakeVars, recVars, playVars, synthVars, svcVars>>

\* record_audio: the locals and `with sd.InputStream(...)`, which raises when
\* the device cannot be opened; nothing in run() catches that
RecOpen ==
  /\ pc = "rec_open"
  /\ ncalls < MaxCalls
  /\ \/ /\ recOpen' = TRUE
        /\ chunk_count' = 0
        /\ silence_chunks' = 0
        /\ has_speech' = FALSE
        /\ pc' = "rec_loop"
     \/ /\ pc' = "crashed"
        /\ UNCHANGED <<recOpen, chunk_count, silence_chunks, has_speech>>
  /\ UNCHANGED <<useWake, pend, intAt, caught, state, running, ncalls>>
  /\ UNCHANGED <<mic_queue>>
  /\ UNCHANGED <<wakeVars, playVars, synthVars, svcVars>>

\* mutant of IsLoud: the comparison is the wrong way round
IsLoudInverted(frame) == frame = "quiet"

\* rms > self.SILENCE_THRESHOLD, for a frame of the model
IsLoud(frame) == frame = "loud"

\* one pass of `while chunk_count < max_chunks`: a frame from the queue, or
\* queue.Empty after the 0.5 s timeout
RecLoopWith(silence_chunks_needed, max_chunks) ==
  /\ pc = "rec_loop"
  /\ IF chunk_count < max_chunks
     THEN IF mic_queue # <<>>
          THEN LET chunk == Head(mic_queue)
                   speech == has_speech \/ IsLoud(chunk)
                   silence == IF IsLoud(chunk) THEN 0 ELSE silence_chunks + 1
               IN  /\ mic_queue' = Tail(mic_queue)
                   /\ chunk_count' = chunk_count + 1
                   /\ has_speech' = speech
                   /\ silence_chunks' = silence
                   /\ pc' = IF speech /\ silence >= silence_chunks_needed
                            THEN "rec_close" ELSE "rec_loop"
          ELSE UNCHANGED <<pc, mic_queue, chunk_count, has_speech, silence_chunks>>
     ELSE /\ pc' = "rec_close"
          /\ UNCHANGED <<mic_queue, chunk_count, has_speech, silence_chunks>>
  /\ UNCHANGED <<useWake, pend, intAt, caught, state, running, ncalls>>
  /\ UNCHANGED <<recOpen>>
  /\ UNCHANGED <<wakeVars, playVars, synthVars, svcVars>>

\* the loop with the frame counts of the model
RecLoop == RecLoopWith(SilenceChunksNeeded, MaxChunks)

\* mutant of NoSpeech: the test of the number of frames is left out
NoSpeechOnlySilent == ~has_speech

\* if not has_speech or len(audio_chunks) < 5: return None
NoSpeech == ~has_speech \/ chunk_count < MIN_AUDIO_CHUNKS

\* the end of the with block, and record_audio's return to run()
RecClose ==
  /\ pc = "rec_close"
  /\ recOpen' = FALSE
  /\ pc' = IF NoSpeech
           THEN (IF useWake THEN "ns_reset" ELSE "loop")
           ELSE "to_processing"
  /\ UNCHANGED <<useWake, pend, intAt, caught, state, running, ncalls>>
  /\ UNCHANGED <<mic_queue, chunk_count, silence_chunks, has_speech>>
  /\ UNCHANGED <<wakeVars, playVars, synthVars, svcVars>>

\* WakeWordDetector.resume: self._model.reset()
ResumeReset ==
  /\ pc \in {"ns_reset", "fin_reset"}
  /\ pc' = IF pc = "ns_reset" THEN "ns_set" ELSE "fin_set"
  /\ engine' = "reset"
  /\ UNCHANGED <<useWake, pend, intAt, caught, state, running, ncalls>>
  /\ UNCHANGED <<wake_event, active, detRunning, wakeStream, cbPc, gateVars, svcVars>>
  /\ UNCHANGED <<recVars, playVars, synthVars>>

\* WakeWordDetector.resume: self._active.set()
ResumeSet ==
  /\ pc \in {"ns_set", "fin_set"}
  /\ active' = TRUE
  /\ pc' = IF pc = "ns_set" THEN "ns_state" ELSE "fin_state"
  /\ UNCHANGED <<useWake, pend, intAt, caught, state, running, ncalls>>
  /\ UNCHANGED <<wake_event, detRunning, wakeStream, cbPc, engine, gateVars, svcVars>>
  /\ UNCHANGED <<recVars, playVars, synthVars>>

\* audio is None: self._state = PipelineState.WAITING; continue
NoSpeechState ==
  /\ pc = "ns_state"
  /\ state' = "WAITING"
  /\ pc' = "loop"
  /\ UNCHANGED <<useWake, pend, intAt, caught, running, ncalls>>
  /\ UNCHANGED <<wakeVars, recVars, playVars, synthVars, svcVars>>

\* self._state = PipelineState.PROCESSING, and the entry into the try block
ToProcessing ==
  /\ pc = "to_processing"
  /\ state' = "PROCESSING"
  /\ ncalls' = ncalls + 1
  /\ caught' = FALSE
  /\ pc' = "transcribe"
  /\ UNCHANGED <<useWake, pend, intAt, running>>
  /\ UNCHANGED <<wakeVars, recVars, playVars, synthVars, svcVars>>

\* where the finally clause of run() begins
FinallyEntry == IF useWake THEN "fin_reset" ELSE "fin_state"

\* process_query: self.transcribe(audio), which raises, returns "" (process_query
\* returns at once) or returns the user's text
Transcribe ==
  /\ pc = "transcribe"
  /\ \E outcome \in {"text", "empty", "error"} :
       /\ pc' = CASE outcome = "text" -> "generate"
                  [] outcome = "empty" -> FinallyEntry
                  [] outcome = "error" -> "except"
       /\ pend' = IF outcome = "error" THEN "error" ELSE pend
  /\ UNCHANGED <<useWake, intAt, caught, state, running, ncalls>>
  /\ UNCHANGED <<wakeVars, recVars, playVars, synthVars, svcVars>>

\* generate_response (the router returns a lazy generator, nothing runs yet)
\* and the start of speak_streaming: its locals, its queue and its event, and
\* playback_thread.start()
SpeakStart ==
  /\ pc = "generate"
  /\ tokens' \in PipeResponses
  /\ tpos' = 0
  /\ buffer' = <<>>
  /\ first_chunk_sent' = FALSE
  /\ units' = <<>>
  /\ audio_queue' = [audio_queue EXCEPT ![ncalls] = <<>>]
  /\ playback_done' = [playback_done EXCEPT ![ncalls] = FALSE]
  /\ wpc' = [wpc EXCEPT ![ncalls] = "get"]
  /\ pc' = "spk_loop"
  /\ UNCHANGED <<useWake, pend, intAt, caught, state, running, ncalls>>
  /\ UNCHANGED <<played, device>>
  /\ UNCHANGED <<wakeVars, recVars, svcVars>>

\* _synthesize_chunk(text) when self.tts.synthesize returns: audio_queue.put(audio),
\* first_chunk_sent = True. The audio of the k-th unit of a call is k.
Synthesized(text) ==
  /\ audio_queue' = [audio_queue EXCEPT ![ncalls] = Append(@, Len(units) + 1)]
  /\ units' = Append(units, text)
  /\ first_chunk_sent' = TRUE

\* one pass of `for chunk in text_generator`: the generator raises, or yields
\* the next fragment; a unit to speak is synthesized, and synthesis may raise
SpeakChunk ==
  /\ pc = "spk_loop"
  /\ tpos < Len(tokens)
  /\ \/ /\ pend' = "error"
        /\ pc' = "spk_put"
        /\ UNCHANGED <<tpos, buffer, first_chunk_sent, units, audio_queue>>
     \/ LET r == ConsumeChunk(buffer, first_chunk_sent, tokens[tpos + 1])
        IN  /\ tpos' = tpos + 1
            /\ IF r.unit = <<>>
               THEN /\ buffer' = r.buffer
                    /\ UNCHANGED <<pc, pend, first_chunk_sent, units, audio_queue>>
               ELSE \/ /\ Synthesized(r.unit)
                       /\ buffer' = r.buffer
                       /\ UNCHANGED <<pc, pend>>
                    \/ /\ pend' = "error"
                       /\ pc' = "spk_put"
                       /\ buffer' = buffer \o tokens[tpos + 1]
                       /\ UNCHANGED <<first_chunk_sent, units, audio_queue>>
  /\ UNCHANGED <<useWake, intAt, caught, state, running, ncalls>>
  /\ UNCHANGED <<tokens, wpc, playback_done, played, device>>
  /\ UNCHANGED <<wakeVars, recVars, svcVars>>

\* the generator is exhausted: the remainder of the buffer is synthesized
SpeakRest ==
  /\ pc = "spk_loop"
  /\ tpos = Len(tokens)
  /\ pc' = "spk_put"
  /\ IF FinalUnit(buffer) = <<>>
     THEN UNCHANGED <<pend, first_chunk_sent, units, audio_queue>>
     ELSE \/ /\ Synthesized(FinalUnit(buffer))
             /\ UNCHANGED pend
          \/ /\ pend' = "error"
             /\ UNCHANGED <<first_chunk_sent, units, audio_queue>>
  /\ UNCHANGED <<useWake, intAt, caught, state, running, ncalls>>
  /\ UNCHANGED <<tokens, tpos, buffer, wpc, playback_done, played, device>>
  /\ UNCHANGED <<wakeVars, recVars, svcVars>>

\* finally: audio_queue.put(None)
SpeakPut ==
  /\ pc = "spk_put"
  /\ audio_queue' = [audio_queue EXCEPT ![ncalls] = Append(@, Sentinel)]
  /\ pc' = "spk_wait"
  /\ UNCHANGED <<useWake, pend, intAt, caught, state, running, ncalls>>
  /\ UNCHANGED <<wpc, playback_done, played, device>>
  /\ UNCHANGED <<wakeVars, recVars, synthVars, svcVars>>

\* mutant of WaitTimesOut: the wait also gives up while the worker has not yet
\* taken what is queued
WaitTimesOutEarly(c) == wpc[c] \in {"get", "wait"}

\* playback_done.wait(timeout=30) returns without the event: 30 s can pass only
\* while the worker is blocked, and with the sentinel queued it blocks only in
\* sd.wait(), playing a buffer
WaitTimesOut(c) == wpc[c] = "wait"

\* playback_done.wait(timeout=30) returns, and speak_streaming and process_query
\* return or go on raising
SpeakWait ==
  /\ pc = "spk_wait"
  /\ playback_done[ncalls] \/ WaitTimesOut(ncalls)
  /\ pc' = IF pend = "error" THEN "except" ELSE FinallyEntry
  /\ UNCHANGED <<useWake, pend, intAt, caught, state, running, ncalls>>
  /\ UNCHANGED <<wakeVars, recVars, playVars, synthVars, svcVars>>

\* except Exception as e: print(...)
Except ==
  /\ pc = "except"
  /\ pend' = "none"
  /\ caught' = TRUE
  /\ pc' = FinallyEntry
  /\ UNCHANGED <<useWake, intAt, state, running, ncalls>>
  /\ UNCHANGED <<wakeVars, recVars, playVars, synthVars, svcVars>>

\* mutant of FinallyState: the finally clause leaves _state as it finds it
FinallyStateKept == state

\* finally: the state the clause assigns
FinallyState == IF useWake THEN "WAITING" ELSE "LISTENING"

\* finally: self._state = ..., after which the loop goes on, or the
\* KeyboardInterrupt that came through goes on to its handler
FinallySetState ==
  /\ pc = "fin_state"
  /\ state' = FinallyState
  /\ pc' = IF pend = "interrupt" THEN "kbd" ELSE "loop"
  /\ UNCHANGED <<useWake, pend, intAt, caught, running, ncalls>>
  /\ UNCHANGED <<wakeVars, recVars, playVars, synthVars, svcVars>>

\* except KeyboardInterrupt: self._running = False and WakeWordDetector.stop,
\* whose stream.stop() returns once the audio callback in progress has ended
Shutdown ==
  /\ pc = "kbd"
  /\ detRunning => cbPc = "idle"
  /\ running' = FALSE
  /\ detRunning' = FALSE
  /\ wakeStream' = FALSE
  /\ pend' = "none"
  /\ pc' = "done"
  /\ UNCHANGED <<useWake, intAt, caught, state, ncalls>>
  /\ UNCHANGED <<wake_event, active, cbPc, engine, gateVars, svcVars>>
  /\ UNCHANGED <<recVars, playVars, synthVars>>

\* where a KeyboardInterrupt raised at p takes the main thread: into the
\* finally clause of speak_streaming, into the finally clause of run(), or to
\* the except KeyboardInterrupt clause
UnwindTo(p) ==
  IF p = "spk_loop" THEN "spk_put"
  ELSE IF p \in QueryPcs THEN FinallyEntry
  ELSE "kbd"

\* Ctrl+C: KeyboardInterrupt is raised in the main thread wherever it is inside
\* the outer try block; a with block that is open is left (the stream closes)
Interrupt ==
  /\ intAt = "none"
  /\ pc \notin {"start", "kbd", "done", "crashed"}
  /\ intAt' = pc
  /\ pc' = UnwindTo(pc)
  /\ pend' = IF pc \in QueryPcs THEN "interrupt" ELSE "none"
  /\ recOpen' = FALSE
  /\ UNCHANGED <<useWake, caught, state, running, ncalls>>
  /\ UNCHANGED <<mic_queue, chunk_count, silence_chunks, has_speech>>
  /\ UNCHANGED <<wakeVars, playVars, synthVars, svcVars>>

----------------------------------------------------------------------------
(* The playback worker of a speak_streaming call *)

\* mutant of QueueGet: what is queued behind the item is lost
QueueGetDropRest(q) == [item |-> Head(q), rest |-> <<>>]

\* mutant of QueueGet: the newest item is taken first
QueueGetNewest(q) == [item |-> q[Len(q)], rest |-> Take(q, Len(q) - 1)]

\* queue.Queue.get: the oldest item
QueueGet(q) == [item |-> Head(q), rest |-> Tail(q)]

\* item = audio_queue.get(); the sentinel ends the loop and playback_done.set();
\* a buffer sets _state and goes to sd.play, which stops whatever the device
\* was playing
WorkerGet(c) ==
  /\ wpc[c] = "get"
  /\ audio_queue[c] # <<>>
  /\ LET got == QueueGet(audio_queue[c])
     IN  /\ audio_queue' = [audio_queue EXCEPT ![c] = got.rest]
         /\ IF got.item = Sentinel
            THEN /\ wpc' = [wpc EXCEPT ![c] = "done"]
                 /\ playback_done' = [playback_done EXCEPT ![c] = TRUE]
                 /\ UNCHANGED <<state, played, device>>
            ELSE /\ state' = "SPEAKING"
                 /\ device' = <<c, got.item>>
                 /\ played' = [played EXCEPT ![c] = Append(@, got.item)]
                 /\ wpc' = [wpc EXCEPT ![c] = "wait"]
                 /\ UNCHANGED playback_done
  /\ UNCHANGED <<useWake, pc, pend, intAt, caught, running, ncalls>>
  /\ UNCHANGED <<wakeVars, recVars, synthVars, svcVars>>

\* sd.wait() returns: the buffer has been played to its end, or another
\* sd.play has stopped it
WorkerWait(c) ==
  /\ wpc[c] = "wait"
  /\ device' = IF device = <<c, played[c][Len(played[c])]>> THEN <<>> ELSE device
  /\ wpc' = [wpc EXCEPT ![c] = "get"]
  /\ UNCHANGED <<audio_queue, playback_done, played>>
  /\ UNCHANGED <<ctlVars, wakeVars, recVars, synthVars, svcVars>>

----------------------------------------------------------------------------
(* The audio callbacks, run by the audio driver's thread *)

\* self._model.predict(audio_chunk) feeds the frame to the model's rolling
\* window: after it the window is no longer as reset() left it
Fed(eng) == "live"

\* WakeWordDetector._audio_callback, for a frame that finds _active set
WakeCheck ==
  /\ wakeStream
  /\ cbPc = "idle"
  /\ active
  /\ cbPc' = "predict"
  /\ UNCHANGED <<wake_event, active, detRunning, wakeStream, engine, gateVars, svcVars>>
  /\ UNCHANGED <<ctlVars, recVars, playVars, synthVars, svcVars>>

\* self._model.predict(audio_chunk), and the threshold and cooldown tests
WakePredict ==
  /\ cbPc = "predict"
  /\ \E triggered \in BOOLEAN :
       cbPc' = IF triggered THEN "on_wake" ELSE "idle"
  /\ engine' = Fed(engine)
  /\ UNCHANGED <<wake_event, active, detRunning, wakeStream, gateVars, svcVars>>
  /\ UNCHANGED <<ctlVars, recVars, playVars, synthVars, svcVars>>

\* mutant of WakeTrigger: the callback performs the transition itself
WakeTriggerSetsState ==
  /\ cbPc = "on_wake"
  /\ wake_event' = TRUE
  /\ state' = "LISTENING"
  /\ cbPc' = "idle"
  /\ UNCHANGED <<active, detRunning, wakeStream, engine, gateVars, svcVars>>
  /\ UNCHANGED <<useWake, pc, pend, intAt, caught, running, ncalls>>
  /\ UNCHANGED <<recVars, playVars, synthVars, svcVars>>

\* self._on_wake(), which is VoicePipeline._on_wake_detected
WakeTrigger ==
  /\ cbPc = "on_wake"
  /\ wake_event' = TRUE
  /\ cbPc' = "idle"
  /\ UNCHANGED <<active, detRunning, wakeStream, engine, gateVars, svcVars>>
  /\ UNCHANGED <<ctlVars, recVars, playVars, synthVars, svcVars>>

\* record_audio.audio_callback: self._audio_queue.put(indata.copy())
RecordCallback ==
  /\ recOpen
  /\ Len(mic_queue) < MaxQueue
  /\ \E frame \in {"loud", "quiet"} : mic_queue' = Append(mic_queue, frame)
  /\ UNCHANGED <<recOpen, chunk_count, silence_chunks, has_speech>>
  /\ UNCHANGED <<ctlVars, wakeVars, playVars, synthVars, svcVars>>

----------------------------------------------------------------------------
(* Specifications *)

Main ==
  \/ Start \/ LoopTop \/ Sleep \/ WaitWake \/ ClearWake \/ Pause \/ ToListening
  \/ RecOpen \/ RecLoop \/ RecClose \/ ResumeReset \/ ResumeSet \/ NoSpeechState
  \/ ToProcessing \/ Transcribe \/ SpeakStart \/ SpeakChunk \/ SpeakRest
  \/ SpeakPut \/ SpeakWait \/ Except \/ FinallySetState \/ Shutdown

Worker(c) == WorkerGet(c) \/ WorkerWait(c)

WakeCallback == WakeCheck \/ WakePredict \/ WakeTrigger

Next ==
  \/ Main
  \/ Interrupt
  \/ \E c \in Calls : Worker(c)
  \/ WakeCallback
  \/ RecordCallback

Spec == PipeInit /\ [][Next]_vars

\* every thread that can run is run, the timeouts elapse, a callback that has
\* begun ends, and an open recording stream keeps delivering frames
FairSpec ==
  /\ Spec
  /\ WF_vars(Main)
  /\ \A c \in Calls : WF_vars(Worker(c))
  /\ WF_vars(WakePredict \/ WakeTrigger)
  /\ WF_vars(RecordCallback)

----------------------------------------------------------------------------
(* SynthSpec: the fragment loop of speak_streaming over bounded inputs *)

Rep(c, n) == [i \in 1..n |-> c]

F_Hello == <<"H", "e", "l", "l", "o">>
F_Comma == <<",", " ">>
F_World == <<"w", "o", "r", "l", "d">>
F_Dot   == <<".", " ">>
F_Bye   == <<"B", "y", "e">>
F_Stop  == <<".">>
F_SoItIs == <<"s", "o", " ", "i", "t", " ", "i", "s", "!">>
F_A10   == Rep("a", 10)
F_B20   == Rep("b", 20)
F_Sp10  == Rep(" ", 10)

\* ["Hello", ", ", "world", ". ", "Bye", "."]
HelloExample == <<F_Hello, F_Comma, F_World, F_Dot, F_Bye, F_Stop>>

\* one fragment of 41 characters, its only comma at index 10, no terminal punctuation
LongExample == << F_A10 \o <<",">> \o Rep("b", 30) >>

\* ["aaaaaaaaaa", ", ", "I think ", "so."]: the early rule fires on the third
\* fragment, which ends in the space that separates it from the fourth
F_IThink == <<"I", " ", "t", "h", "i", "n", "k", " ">>
F_So     == <<"s", "o", ".">>
SpaceExample == <<F_A10, F_Comma, F_IThink, F_So>>

Fragments == {F_Comma, F_Dot, F_World, F_SoItIs, F_A10, F_B20, F_Sp10}

SynthInputs ==
  {HelloExample, LongExample, SpaceExample}
    \cup UNION {[1..n -> Fragments] : n \in 0..MaxFrags}

\* speak_streaming entered with one of the inputs; no other thread is modelled
SynthInit ==
  /\ useWake = FALSE
  /\ pc = "spk_loop"
  /\ pend = "none"
  /\ intAt = "none"
  /\ caught = FALSE
  /\ state = "PROCESSING"
  /\ running = TRUE
  /\ ncalls = 1
  /\ wake_event = FALSE
  /\ active = FALSE
  /\ detRunning = FALSE
  /\ wakeStream = FALSE
  /\ cbPc = "idle"
  /\ engine = "reset"
  /\ now = COOLDOWN_SECONDS
  /\ last_trigger_time = 0
  /\ hits = <<>>
  /\ SvcIdle
  /\ recOpen = FALSE
  /\ mic_queue = <<>>
  /\ chunk_count = 0
  /\ silence_chunks = 0
  /\ has_speech = FALSE
  /\ audio_queue = [c \in Calls |-> <<>>]
  /\ wpc = [c \in Calls |-> "none"]
  /\ playback_done = [c \in Calls |-> FALSE]
  /\ played = [c \in Calls |-> <<>>]
  /\ device = <<>>
  /\ tokens \in SynthInputs
  /\ tpos = 0
  /\ buffer = <<>>
  /\ first_chunk_sent = FALSE
  /\ units = <<>>

\* one pass of `for chunk in text_generator`, synthesis succeeding
SynthFeed ==
  /\ pc = "spk_loop"
  /\ tpos < Len(tokens)
  /\ LET r == ConsumeChunk(buffer, first_chunk_sent, tokens[tpos + 1])
     IN  /\ tpos' = tpos + 1
         /\ buffer' = r.buffer
         /\ units' = IF r.unit = <<>> THEN units ELSE Append(units, r.unit)
         /\ first_chunk_sent' = (first_chunk_sent \/ r.unit # <<>>)
  /\ UNCHANGED <<tokens, ctlVars, wakeVars, recVars, playVars, svcVars>>

\* the generator is exhausted: the remainder of the buffer is synthesized
SynthRest ==
  /\ pc = "spk_loop"
  /\ tpos = Len(tokens)
  /\ pc' = "spk_put"
  /\ units' = IF FinalUnit(buffer) = <<>> THEN units
              ELSE Append(units, FinalUnit(buffer))
  /\ first_chunk_sent' = (first_chunk_sent \/ FinalUnit(buffer) # <<>>)
  /\ UNCHANGED <<useWake, pend, intAt, caught, state, running, ncalls>>
  /\ UNCHANGED <<tokens, tpos, buffer>>
  /\ UNCHANGED <<wakeVars, recVars, playVars, svcVars>>

SynthNext == SynthFeed \/ SynthRest

SynthSpec == SynthInit /\ [][SynthNext]_vars

----------------------------------------------------------------------------
(* GateSpec: the wake detector's audio callback over a sequence of frames,   *)
(* with the clock it reads. The audio driver runs one callback at a time, so *)
(* a callback is one step.                                                   *)

\* the scores of the model's frames, in tenths
Scores == {3, 5, 7}

\* if score > self.threshold
AboveThreshold(score) == score > DEFAULT_THRESHOLD

\* mutant of InCooldown: <= instead of <
InCooldownInclusive(t, last) == t - last <= COOLDOWN_SECONDS

\* if now - self._last_trigger_time < self.COOLDOWN_SECONDS
InCooldown(t, last) == t - last < COOLDOWN_SECONDS

\* run() has started the detector and waits for the wake word; the clock has
\* run for at least the cooldown since its origin
GateInit ==
  /\ useWake = TRUE
  /\ pc = "wait"
  /\ pend = "none"
  /\ intAt = "none"
  /\ caught = FALSE
  /\ state = "WAITING"
  /\ running = TRUE
  /\ ncalls = 0
  /\ wake_event = FALSE
  /\ active = TRUE
  /\ detRunning = TRUE
  /\ wakeStream = TRUE
  /\ cbPc = "idle"
  /\ engine = "reset"
  /\ now = COOLDOWN_SECONDS
  /\ last_trigger_time = 0
  /\ hits = <<>>
  /\ SvcIdle
  /\ recOpen = FALSE
  /\ mic_queue = <<>>
  /\ chunk_count = 0
  /\ silence_chunks = 0
  /\ has_speech = FALSE
  /\ audio_queue = [c \in Calls |-> <<>>]
  /\ wpc = [c \in Calls |-> "none"]
  /\ playback_done = [c \in Calls |-> FALSE]
  /\ played = [c \in Calls |-> <<>>]
  /\ device = <<>>
  /\ tokens = <<>>
  /\ tpos = 0
  /\ buffer = <<>>
  /\ first_chunk_sent = FALSE
  /\ units = <<>>

\* a second passes
GateTick ==
  /\ now < MaxNow
  /\ now' = now + 1
  /\ UNCHANGED <<last_trigger_time, hits>>
  /\ UNCHANGED <<wake_event, active, detRunning, wakeStream, cbPc, engine>>
  /\ UNCHANGED <<ctlVars, recVars, playVars, synthVars, svcVars>>

\* mutant of GateFrame: a suppressed frame restarts the cooldown window
GateFrameExtends ==
  /\ active
  /\ Len(hits) < MaxHits
  /\ \E score \in Scores :
       IF AboveThreshold(score)
       THEN IF InCooldown(now, last_trigger_time)
            THEN /\ hits' = Append(hits, [t |-> now, fired |-> FALSE])
                 /\ last_trigger_time' = now
                 /\ UNCHANGED <<wake_event>>
            ELSE /\ last_trigger_time' = now
                 /\ wake_event' = TRUE
                 /\ hits' = Append(hits, [t |-> now, fired |-> TRUE])
       ELSE UNCHANGED <<last_trigger_time, wake_event, hits>>
  /\ engine' = Fed(engine)
  /\ UNCHANGED <<now, active, detRunning, wakeStream, cbPc>>
  /\ UNCHANGED <<ctlVars, recVars, playVars, synthVars, svcVars>>

\* _audio_callback for one frame while _active is set: predict, the threshold
\* test, the cooldown test, and self._on_wake()
GateFrame ==
  /\ active
  /\ Len(hits) < MaxHits
  /\ \E score \in Scores :
       IF AboveThreshold(score)
       THEN IF InCooldown(now, last_trigger_time)
            THEN /\ hits' = Append(hits, [t |-> now, fired |-> FALSE])
                 /\ UNCHANGED <<last_trigger_time, wake_event>>
            ELSE /\ last_trigger_time' = now
                 /\ wake_event' = TRUE
                 /\ hits' = Append(hits, [t |-> now, fired |-> TRUE])
       ELSE UNCHANGED <<last_trigger_time, wake_event, hits>>
  /\ engine' = Fed(engine)
  /\ UNCHANGED <<now, active, detRunning, wakeStream, cbPc>>
  /\ UNCHANGED <<ctlVars, recVars, playVars, synthVars, svcVars>>

GateNext == GateTick \/ GateFrame

GateSpec == GateInit /\ [][GateNext]_vars

----------------------------------------------------------------------------
(* Claims about the wake gate's cooldown (GateSpec) *)

\* the time of the latest frame before the i-th hit that fired onWake, or the
\* initial _last_trigger_time
LastFiredBefore(i) ==
  LET earlier == {j \in 1..(i - 1) : hits[j].fired}
  IN  IF earlier = {} THEN 0
      ELSE hits[CHOOSE j \in earlier : \A k \in earlier : k <= j].t

\* C12 as claimed: of any two frames scored above the threshold less than
\* COOLDOWN_SECONDS apart, the first fires onWake and the second does not.
C12_ExactlyOnePerPair ==
  \A i, j \in 1..Len(hits) :
    (i < j /\ hits[j].t - hits[i].t < COOLDOWN_SECONDS)
      => hits[i].fired /\ ~hits[j].fired

\* C12 as amended: a frame scored above the threshold fires onWake exactly
\* when at least COOLDOWN_SECONDS have passed since the last frame that fired
\* (a suppressed frame does not restart the window); so two onWake calls are
\* never less than COOLDOWN_SECONDS apart, and of two such frames less than
\* COOLDOWN_SECONDS apart the second is suppressed whenever the first fired.
C12_Cooldown ==
  /\ \A i \in 1..Len(hits) :
       hits[i].fired <=> (hits[i].t - LastFiredBefore(i) >= COOLDOWN_SECONDS)
  /\ \A i, j \in 1..Len(hits) :
       (i < j /\ hits[j].t - hits[i].t < COOLDOWN_SECONDS)
         => ~(hits[i].fired /\ hits[j].fired)
  /\ \A i, j \in 1..Len(hits) :
       (i < j /\ hits[j].t - hits[i].t < COOLDOWN_SECONDS /\ hits[i].fired)
         => ~hits[j].fired

\* two frames above the threshold one second apart, the first fired and the
\* second suppressed, and a third that fired after the cooldown
C12_Witness ==
  /\ Len(hits) = 3
  /\ hits[1].fired /\ ~hits[2].fired /\ hits[3].fired
  /\ hits[2].t - hits[1].t = 1
  /\ hits[3].t - hits[1].t = COOLDOWN_SECONDS

\* the step scores a frame above the threshold
NewHit == Len(hits') = Len(hits) + 1

----------------------------------------------------------------------------
(* Claims about the streaming synthesizer (SynthSpec) *)

\* the buffer once the fragment the loop takes next has been appended
Appended == buffer \o tokens[tpos + 1]

\* a step of the fragment loop that takes a fragment
TakesFragment == pc = "spk_loop" /\ tpos' = tpos + 1

\* the text ends in . ! or ?, optionally followed by whitespace
TerminalEnd(s) ==
  LET r == RStrip(s) IN r # <<>> /\ r[Len(r)] \in {".", "!", "?"}

\* the first-unit rule applies: nothing flushed yet, at least 20 characters,
\* and a comma or at least 40 characters
Eager(s) ==
  /\ ~first_chunk_sent
  /\ Len(s) >= 20
  /\ (HasComma(s) \/ Len(s) >= 40)

\* where the first-unit rule splits: at the last comma when its index is at
\* least 10, otherwise at the end of the buffer
CommaSplit(s) == IF RFindComma(s) >= 10 THEN RFindComma(s) ELSE Len(s)

\* the step flushes `unit` and leaves `rest` in the buffer
Flushes(unit, rest) == units' = Append(units, unit) /\ buffer' = rest

\* C9: whenever a fragment leaves the buffer ending in terminal punctuation
\* (optionally followed by whitespace) the whole trimmed buffer is flushed as
\* one unit and the buffer is cleared; "Hello" ", " "world" ". " "Bye" "."
\* gives exactly the units "Hello, world." and "Bye.".
C9_SentenceFlush ==
  /\ [][ (TakesFragment /\ TerminalEnd(Appended))
           => Flushes(Strip(Appended), <<>>) ]_vars
  /\ [](tokens = HelloExample /\ pc = "spk_put"
           => units = << F_Hello \o F_Comma \o F_World \o F_Stop,
                         F_Bye \o F_Stop >>)

C9_Witness ==
  /\ tokens = HelloExample
  /\ pc = "spk_put"
  /\ Len(units) = 2

\* C10 as claimed: before the first unit, once the buffer holds 20 characters
\* and a comma, or 40 characters, the prefix up to the last comma (index >= 10)
\* or else the whole buffer is flushed and the remainder retained; the long
\* fragment with its comma at index 10 is first flushed at the comma.
C10_EarlyFlushAlways ==
  /\ [][ (TakesFragment /\ Eager(Appended))
           => Flushes(Strip(Take(Appended, CommaSplit(Appended))),
                      Strip(LStripComma(Drop(Appended, CommaSplit(Appended))))) ]_vars
  /\ [](tokens = LongExample /\ tpos = 1 => units # <<>> /\ units[1] = F_A10)

\* C10 as amended: the rule applies only when the buffer does not end in
\* terminal punctuation (the sentence rule comes first), and a prefix that is
\* blank is not flushed: the buffer is then kept whole.
C10_EarlyFlush ==
  /\ [][ (TakesFragment /\ Eager(Appended) /\ ~TerminalEnd(Appended))
           => IF Strip(Take(Appended, CommaSplit(Appended))) # <<>>
              THEN Flushes(Strip(Take(Appended, CommaSplit(Appended))),
                           Strip(LStripComma(Drop(Appended, CommaSplit(Appended)))))
              ELSE units' = units /\ buffer' = Appended ]_vars
  /\ [](tokens = LongExample /\ tpos = 1 => units # <<>> /\ units[1] = F_A10)

C10_Witness ==
  /\ tokens = LongExample
  /\ tpos = 1
  /\ units = <<F_A10>>
  /\ buffer = Rep("b", 30)

----------------------------------------------------------------------------
(* Claims about the control loop and the playback worker (Spec, FairSpec) *)

\* the buffers waiting in a call's playback queue
QueuedBuffers(c) == SelectSeq(audio_queue[c], LAMBDA x : x # Sentinel)

\* the worker of call c is playing a buffer or has one queued
HasAudio(c) ==
  \/ wpc[c] = "wait"
  \/ wpc[c] = "get" /\ QueuedBuffers(c) # <<>>

\* C1: as long as no interrupt has arrived, whenever a playback worker has a
\* buffer playing or queued the state is PROCESSING or SPEAKING, the wake gate
\* (if enabled) is paused and no recording is open, so the state is back to
\* WAITING or LISTENING only once all queued units have been played.
C1_MutedWhilePlaying ==
  intAt = "none" =>
    \A c \in Calls :
      HasAudio(c) =>
        /\ state \in {"PROCESSING", "SPEAKING"}
        /\ useWake => ~active
        /\ ~recOpen

\* C2: an exception raised inside process_query never leaves run(): it is on
\* its way to `except Exception`, and when the finally clause of an
\* interaction that raised has run, the loop goes on with the state WAITING and
\* the wake gate resumed (wake-word mode) or LISTENING.
C2_ExceptionRecovered ==
  /\ [](pend = "error" => pc \in {"spk_put", "spk_wait", "except"})
  /\ [][ (caught /\ pc = "fin_state" /\ pc' = "loop")
           => /\ running'
              /\ state' = (IF useWake THEN "WAITING" ELSE "LISTENING")
              /\ useWake => active' ]_vars

C2_Witness ==
  /\ caught
  /\ pc = "loop"
  /\ useWake
  /\ state = "WAITING"
  /\ active

\* the microphone is live again: WAITING with the wake gate active, or LISTENING
MicLive == (state = "WAITING" /\ active) \/ state = "LISTENING"

\* the model takes no further interaction
AtBound == pc = "rec_open" /\ ncalls = MaxCalls

\* C3: from PROCESSING or SPEAKING the pipeline always comes back to WAITING
\* with the wake gate active or to LISTENING, unless run() has ended.
C3_MicLiveAgain ==
  [](state \in {"PROCESSING", "SPEAKING"} /\ ~AtBound
       => <>(MicLive \/ AtBound \/ pc \in {"done", "crashed"}))

\* C4: the wake gate's callback is never scoring a frame while record_audio
\* has its recording open.
C4_OneConsumer == ~(recOpen /\ cbPc = "predict")

\* C5: run() ends only by an interrupt: no error raised while handling an
\* utterance ends it.
C5_OnlyInterruptEndsRun == pc \in {"done", "crashed"} => intAt # "none"

\* C6: after an interrupt that arrives inside record_audio, run() goes to its
\* shutdown without transcribing, and in wake-word mode the wake gate's active
\* flag is set when run() has returned.
C6_InterruptWhileListening ==
  intAt \in RecPcs =>
    /\ pc \in {"kbd", "done"}
    /\ (pc = "done" /\ useWake) => active

\* C7: when run() has returned after an interrupt, the loop has stopped, the
\* wake detector's stream is closed, no recording stream is open, and no
\* playback worker is playing a buffer or holds queued audio.
C7_CleanShutdown ==
  pc = "done" =>
    /\ ~running
    /\ ~wakeStream
    /\ ~recOpen
    /\ device = <<>>
    /\ \A c \in Calls : ~HasAudio(c)

\* C8: a worker plays the buffers of its call in the order they were queued,
\* each once, one at a time, and has played them all when it ends.
C8_PlaybackInOrder ==
  \A c \in Calls :
    /\ played[c] \o QueuedBuffers(c)
         = [i \in 1..(Len(played[c]) + Len(QueuedBuffers(c))) |-> i]
    /\ (device # <<>> /\ device[1] = c)
         => wpc[c] = "wait" /\ device[2] = played[c][Len(played[c])]
    /\ wpc[c] = "done" => audio_queue[c] = <<>>
    /\ (c = ncalls /\ pc \in {"spk_loop", "spk_put", "spk_wait"})
         => Len(played[c]) + Len(QueuedBuffers(c)) = Len(units)

C8_Witness ==
  \E c \in Calls : wpc[c] = "done" /\ played[c] = <<1, 2>>

\* the first interaction of a run in wake-word mode answered with
\* ["It's", " 3", " PM", "."], with no error and no interrupt
FirstTimeQuery ==
  /\ useWake
  /\ ncalls = 1
  /\ tokens = RespTime
  /\ ~caught
  /\ pend = "none"
  /\ intAt = "none"

\* "It's 3 PM."
ItsThreePM == RespTime[1] \o RespTime[2] \o RespTime[3] \o RespTime[4]

\* C11: in wake-word mode, an utterance answered with the fragments "It's",
\* " 3", " PM", "." is synthesized as exactly one unit "It's 3 PM.", the
\* playback worker plays exactly one buffer, and run()'s finally clause leaves
\* the state WAITING, where it stays until the next wake.
C11_SingleSentence ==
  /\ [][ (FirstTimeQuery /\ pc = "fin_state" /\ pc' = "loop")
           => /\ state' = "WAITING"
              /\ units = <<ItsThreePM>>
              /\ played[1] = <<1>> ]_vars
  /\ [](FirstTimeQuery /\ pc \in {"loop", "wait", "clear", "pause", "to_listening"}
           => /\ units = <<ItsThreePM>>
              /\ played[1] = <<1>>
              /\ audio_queue[1] \in {<<>>, <<Sentinel>>}
              /\ state \notin {"PROCESSING", "SPEAKING"})

C11_Witness ==
  /\ FirstTimeQuery
  /\ pc = "wait"
  /\ state = "WAITING"
  /\ active
  /\ wpc[1] = "done"
  /\ played[1] = <<1>>
  /\ units = <<ItsThreePM>>

----------------------------------------------------------------------------
(* RecSpec: one call of record_audio and what run() does with its result up  *)
(* to the next pass of its loop or the entry into process_query. The main    *)
(* thread is always scheduled; the audio driver delivers frames or stops     *)
(* delivering them.                                                          *)

\* run() is about to call record_audio for the first time
RecIdle ==
  /\ useWake \in BOOLEAN
  /\ pc = "rec_open"
  /\ pend = "none"
  /\ intAt = "none"
  /\ caught = FALSE
  /\ state = "LISTENING"
  /\ running = TRUE
  /\ ncalls = 0
  /\ wake_event = FALSE
  /\ active = FALSE
  /\ detRunning = useWake
  /\ wakeStream = useWake
  /\ cbPc = "idle"
  /\ engine = "reset"
  /\ now = COOLDOWN_SECONDS
  /\ last_trigger_time = 0
  /\ hits = <<>>
  /\ recOpen = FALSE
  /\ mic_queue = <<>>
  /\ chunk_count = 0
  /\ silence_chunks = 0
  /\ has_speech = FALSE
  /\ audio_queue = [c \in Calls |-> <<>>]
  /\ wpc = [c \in Calls |-> "none"]
  /\ playback_done = [c \in Calls |-> FALSE]
  /\ played = [c \in Calls |-> <<>>]
  /\ device = <<>>
  /\ tokens = <<>>
  /\ tpos = 0
  /\ buffer = <<>>
  /\ first_chunk_sent = FALSE
  /\ units = <<>>

RecInit == RecIdle /\ SvcIdle

\* the main thread inside record_audio, and in run() after its return
RecMain ==
  \/ RecOpen \/ RecLoop \/ RecClose
  \/ ResumeReset \/ ResumeSet \/ NoSpeechState \/ ToProcessing

RecNext == RecMain \/ RecordCallback

RecSpec == RecInit /\ [][RecNext]_vars /\ WF_vars(RecMain)

----------------------------------------------------------------------------
(* Claims about record_audio (RecSpec) *)

\* a step of record_audio's loop that takes a frame from the queue
TakesFrame == pc = "rec_loop" /\ chunk_count' = chunk_count + 1

\* C13: a frame above the silence threshold marks speech as heard and resets
\* the run of silent frames to zero, a frame below it lengthens the run by
\* one; the recording ends on a frame exactly when speech has been heard and
\* the run has reached the configured length, and otherwise ends only at the
\* maximum number of frames, so silence that no speech preceded never ends it
\* early.
C13_Endpointing ==
  /\ [][ TakesFrame =>
          /\ Head(mic_queue) = "loud"
                => has_speech' /\ silence_chunks' = 0
          /\ Head(mic_queue) = "quiet"
                => has_speech' = has_speech /\ silence_chunks' = silence_chunks + 1
          /\ pc' = "rec_close"
                <=> (has_speech' /\ silence_chunks' >= SilenceChunksNeeded) ]_vars
  /\ [][ (pc = "rec_loop" /\ pc' = "rec_close" /\ ~TakesFrame)
           => chunk_count = MaxChunks ]_vars
  /\ [](pc = "rec_close" /\ ~has_speech => chunk_count = MaxChunks)

\* a recording ended by silence after speech, before the maximum length
C13_Witness ==
  /\ pc = "rec_close"
  /\ has_speech
  /\ silence_chunks = SilenceChunksNeeded
  /\ chunk_count = MIN_AUDIO_CHUNKS
  /\ chunk_count < MaxChunks

\* record_audio returns to run()
RecReturns == pc = "rec_close" /\ pc' # pc /\ intAt' = intAt

\* the main thread is on the path run() takes when record_audio returned None
\* in wake-word mode
NoSpeechPcs == {"ns_reset", "ns_set", "ns_state"}

\* C14: a recording in which no frame exceeded the threshold (also one that
\* ran to the maximum length) or that holds fewer than 5 frames is reported as
\* no speech: run() does not enter PROCESSING and does not transcribe, and in
\* wake-word mode it resumes the wake gate and sets the state to WAITING.
C14_NoSpeech ==
  /\ [][ (RecReturns /\ (~has_speech \/ chunk_count < 5))
           => /\ pc' = (IF useWake THEN "ns_reset" ELSE "loop")
              /\ state' = state
              /\ ncalls' = ncalls ]_vars
  /\ [][ (pc \in NoSpeechPcs /\ pc' # pc /\ intAt' = intAt)
           => /\ pc' \in NoSpeechPcs \cup {"loop"}
              /\ ncalls' = ncalls
              /\ pc' = "loop" => active' /\ state' = "WAITING" ]_vars
  /\ [](pc \in NoSpeechPcs => useWake)

\* a recording that ran to the maximum length in silence, after which the
\* gate is active again and the state WAITING
C14_Witness ==
  /\ useWake
  /\ pc = "loop"
  /\ ncalls = 0
  /\ ~recOpen
  /\ ~has_speech
  /\ chunk_count = MaxChunks
  /\ state = "WAITING"
  /\ active

----------------------------------------------------------------------------
(* Claims about the wake gate inside the control loop (Spec, FairSpec) *)

\* C15: in wake-word mode the state becomes LISTENING only in the step that
\* follows pause(), which the loop reaches only from a wait that found the
\* wake event set; the gate's active flag is cleared when the state becomes
\* LISTENING and for as long as record_audio runs.
C15_PauseBeforeListening ==
  /\ [][ (useWake /\ state' = "LISTENING" /\ state # "LISTENING")
           => pc = "to_listening" /\ ~active /\ ~active' ]_vars
  /\ [][ (pc' = "to_listening" /\ pc # "to_listening") => pc = "pause" ]_vars
  /\ [][ (pc' = "pause" /\ pc # "pause") => pc = "clear" ]_vars
  /\ [][ (pc' = "clear" /\ pc # "clear") => pc = "wait" /\ wake_event ]_vars
  /\ [](useWake /\ (recOpen \/ pc \in RecPcs) => ~active /\ state # "WAITING")

C15_Witness ==
  /\ useWake
  /\ pc = "rec_loop"
  /\ recOpen
  /\ state = "LISTENING"
  /\ ~active

\* C16: a wake signal raised while the state is WAITING is never dropped: it
\* is followed by the transition to LISTENING, unless an interrupt arrives.
C16_WakeNotDropped ==
  [](wake_event /\ state = "WAITING" /\ intAt = "none"
       => <>(state = "LISTENING" \/ intAt # "none"))

\* C17: when resume() re-enables scoring the engine's window is as that
\* resume()'s reset left it, so that every frame scored from then on is
\* scored against reset state and nothing fed while the gate was paused
\* contributes to a score.
C17_ResetBeforeScoring ==
  [][ (~active /\ active') => engine' = "reset" ]_vars

\* the step flushes a unit
FlushesUnit == units' # units

\* the fragment sequence is exhausted and the step flushes the remainder
FlushesRemainder == tpos = Len(tokens) /\ pc' = "spk_put" /\ FlushesUnit

\* C33: a flush that is neither a sentence flush (the buffer ends in terminal
\* punctuation) nor the flush of the remainder happens only while no unit has
\* been flushed, so there is at most one early flush per response and it is
\* the first unit.
C33_EarlyFlushOnlyFirst ==
  /\ [][ (FlushesUnit /\ units # <<>>)
          => \/ TakesFragment /\ TerminalEnd(Appended)
             \/ FlushesRemainder ]_vars
  /\ [][ (TakesFragment /\ FlushesUnit /\ ~TerminalEnd(Appended))
          => units = <<>> /\ ~first_chunk_sent /\ first_chunk_sent' ]_vars

\* a unit has been flushed and the buffer now meets the length and comma
\* conditions of the first-unit rule without ending a sentence: nothing more
\* is flushed from it
C33_Witness ==
  /\ Len(units) = 1
  /\ first_chunk_sent
  /\ Len(buffer) >= MIN_FIRST_CHUNK
  /\ HasComma(buffer)
  /\ ~TerminalEnd(buffer)

----------------------------------------------------------------------------
(* PlaySpec: one call of speak_streaming from the start of its playback      *)
(* thread to its return, with its playback worker, under the fairness of the *)
(* thread scheduler                                                          *)

\* process_query has called speak_streaming for the first interaction, and
\* playback_thread.start() has run
PlayInit ==
  /\ useWake \in BOOLEAN
  /\ pc = "spk_loop"
  /\ pend = "none"
  /\ intAt = "none"
  /\ caught = FALSE
  /\ state = "PROCESSING"
  /\ running = TRUE
  /\ ncalls = 1
  /\ wake_event = FALSE
  /\ active = FALSE
  /\ detRunning = useWake
  /\ wakeStream = useWake
  /\ cbPc = "idle"
  /\ engine = "reset"
  /\ now = COOLDOWN_SECONDS
  /\ last_trigger_time = 0
  /\ hits = <<>>
  /\ SvcIdle
  /\ recOpen = FALSE
  /\ mic_queue = <<>>
  /\ chunk_count = 0
  /\ silence_chunks = 0
  /\ has_speech = FALSE
  /\ audio_queue = [c \in Calls |-> <<>>]
  /\ wpc = [c \in Calls |-> IF c = 1 THEN "get" ELSE "none"]
  /\ playback_done = [c \in Calls |-> FALSE]
  /\ played = [c \in Calls |-> <<>>]
  /\ device = <<>>
  /\ tokens \in PipeResponses
  /\ tpos = 0
  /\ buffer = <<>>
  /\ first_chunk_sent = FALSE
  /\ units = <<>>

\* the main thread inside speak_streaming, up to `except Exception` in run()
PlayMain == SpeakChunk \/ SpeakRest \/ SpeakPut \/ SpeakWait \/ Except

PlayNext ==
  \/ PlayMain
  \/ Interrupt
  \/ \E c \in Calls : Worker(c)

PlaySpec ==
  /\ PlayInit
  /\ [][PlayNext]_vars
  /\ WF_vars(PlayMain)
  /\ \A c \in Calls : WF_vars(Worker(c))

----------------------------------------------------------------------------
(* Claims about the end of a speak_streaming call (PlaySpec) *)

\* the sentinels waiting in a call's playback queue
QueuedSentinels(c) == SelectSeq(audio_queue[c], LAMBDA x : x = Sentinel)

\* speak_streaming was called for interaction c and its fragment loop and
\* audio_queue.put(None) are behind it
LoopLeft(c) ==
  /\ wpc[c] # "none"
  /\ c < ncalls \/ pc \notin {"spk_loop", "spk_put"}

\* C18: as long as no interrupt has arrived: a call's queue never holds more
\* than one sentinel, the sentinel is behind every buffer, it has been
\* enqueued once the fragment loop is left (normally or by an exception) and
\* not before; a worker that has ended has emptied its queue, played every
\* unit's buffer and set playback_done; and every worker eventually ends.
C18_SentinelEndsPlayback ==
  /\ [](intAt = "none" =>
         \A c \in Calls :
           /\ Len(QueuedSentinels(c)) <= 1
           /\ QueuedSentinels(c) # <<>>
                => audio_queue[c][Len(audio_queue[c])] = Sentinel
           /\ LoopLeft(c) => (wpc[c] = "done" \/ Len(QueuedSentinels(c)) = 1)
           /\ ~LoopLeft(c) => (wpc[c] # "done" /\ QueuedSentinels(c) = <<>>)
           /\ playback_done[c] <=> wpc[c] = "done"
           /\ wpc[c] = "done" => audio_queue[c] = <<>>
           /\ (wpc[c] = "done" /\ c = ncalls) => Len(played[c]) = Len(units))
  /\ \A c \in Calls :
       [](wpc[c] \in {"get", "wait"} /\ intAt = "none"
            => <>(wpc[c] = "done" \/ intAt # "none"))

\* a call whose generator or synthesis raised after one unit was queued: the
\* worker played that buffer and ended
C18_Witness ==
  /\ intAt = "none"
  /\ caught
  /\ wpc[ncalls] = "done"
  /\ playback_done[ncalls]
  /\ played[ncalls] = <<1>>
  /\ tpos < Len(tokens)

----------------------------------------------------------------------------
(* Claims about the length of a recording (RecSpec) *)

\* C19: record_audio never holds more than the maximum number of frames, and
\* every call ends, whether speech goes on, is never heard, or frames stop
\* arriving.
C19_RecordingTerminates ==
  /\ [](chunk_count <= MaxChunks)
  /\ [](pc \in {"rec_open", "rec_loop"} => <>(pc \notin {"rec_open", "rec_loop"}))

----------------------------------------------------------------------------
(* Claims about the initial state (Spec) *)

\* the pipeline is constructed and run() has not reached its loop, or run()
\* has just entered its loop: no frame scored and no frame recorded yet
BeforeFirstWake ==
  \/ pc = "start"
  \/ pc = "loop" /\ ncalls = 0 /\ engine = "reset" /\ chunk_count = 0

\* C20: from construction until the first wake the state is WAITING when
\* wake-word gating is enabled and LISTENING otherwise.
C20_InitialState ==
  BeforeFirstWake => state = (IF useWake THEN "WAITING" ELSE "LISTENING")

----------------------------------------------------------------------------
(* RouteSpec: the query router. A query is the sequence of its words, in    *)
(* lower case (the patterns are compiled with re.IGNORECASE); a pattern     *)
(* \bw1 w2\b is the word sequence <<w1, w2>>.                               *)

\* router.py:90  word_count <= 5
VERY_SHORT_WORDS == 5
\* router.py:69  LONG_QUERY_WORDS = 25
LONG_QUERY_WORDS == 25

\* router.py:15  CLOUD_PATTERNS
CLOUD_PATTERNS ==
  { <<"why">>, <<"explain">>, <<"compare">>,
    <<"analyz">>, <<"analyze">>, <<"analyzs">>,
    <<"difference", "between">>, <<"pros", "and", "cons">>,
    <<"write">>, <<"create">>, <<"compose">>, <<"draft">>,
    <<"summariz">>, <<"summarize">>, <<"summarizs">>,
    <<"how", "would">>, <<"what", "if">>, <<"help", "me">>,
    <<"step", "by", "step">>, <<"walk", "me", "through">>,
    <<"debug">>, <<"refactor">>, <<"implement">>, <<"architect">> }

\* router.py:43  LOCAL_PATTERNS, without the anchored yes/no pattern
LOCAL_PATTERNS ==
  { <<"what", "time">>, <<"what", "day">>, <<"what", "date">>,
    <<"what", "is">>, <<"who", "is">>, <<"where", "is">>, <<"define">>,
    <<"timer">>, <<"remind">>, <<"alarm">>, <<"play">>, <<"stop">>,
    <<"pause">>, <<"volume">>,
    <<"hello">>, <<"hi">>, <<"hey">>, <<"thanks">>, <<"thank", "you">>,
    <<"good", "morning">>, <<"good", "night">> }

\* router.py:64  ^(yes|no|yeah|nah|sure|okay|ok)[\s.!?]*$
YES_NO == {"yes", "no", "yeah", "nah", "sure", "okay", "ok"}

\* pattern.search(text) for one pattern
Search(pattern, text) ==
  \E i \in 1..Len(text) :
    /\ i + Len(pattern) - 1 <= Len(text)
    /\ SubSeq(text, i, i + Len(pattern) - 1) = pattern

\* sum(1 for p in _cloud_re if p.search(text)) >= 1
CloudSignal(text) == \E p \in CLOUD_PATTERNS : Search(p, text)

\* some pattern of _local_re matches
LocalSignal(text) ==
  \/ \E p \in LOCAL_PATTERNS : Search(p, text)
  \/ Len(text) = 1 /\ text[1] \in YES_NO

\* classify(text)
classify(text) ==
  LET word_count == Len(text)
  IN  IF text = <<>> THEN "local"
      ELSE IF word_count <= VERY_SHORT_WORDS
           THEN IF CloudSignal(text) THEN "cloud" ELSE "local"
      ELSE IF LocalSignal(text) THEN "local"
      ELSE IF CloudSignal(text) THEN "cloud"
      ELSE IF word_count >= LONG_QUERY_WORDS THEN "cloud"
      ELSE "local"

\* QueryRouter._decide
Decide(mode, text) ==
  IF mode = "local" THEN "local"
  ELSE IF mode = "cloud" THEN "cloud"
  ELSE classify(text)

\* the body of QueryRouter.route once its generator is consumed: the backend
\* function that runs, or the TypeError of calling None
RouteServe(backend, lf, cf) ==
  IF backend = "cloud" /\ cf # "none" THEN cf
  ELSE IF lf # "none" THEN lf
  ELSE "TypeError"

\* n words that match no pattern
Filler(n) == [i \in 1..n |-> "the"]

\* the queries routed in RouteSpec
Queries ==
  { <<>>,
    <<"what", "time", "is", "it">>,
    <<"why">>,
    <<"ok">>,
    <<"explain">> \o Filler(5),
    <<"explain", "the", "timer">> \o Filler(3),
    Filler(6),
    Filler(LONG_QUERY_WORDS - 1),
    Filler(LONG_QUERY_WORDS) }

\* the modes QueryRouter.__init__ accepts
RouterModes == {"local", "cloud", "hybrid"}

\* a VoicePipeline constructed with some router_mode, with or without an API
\* key in the environment, before load_models; no QueryRouter exists yet
RouteInit ==
  /\ VoiceIdle
  /\ useWake = FALSE
  /\ router_mode \in RouterModes
  /\ cloud_available \in BOOLEAN
  /\ router = "none"
  /\ local_fn = "none"
  /\ cloud_fn = "none"
  /\ query = <<>>
  /\ served = "none"
  /\ llm_backend = "none"
  /\ SecIdle
  /\ CfgIdle
  /\ CloudIdle

\* VoicePipeline._init_router
InitRouter ==
  /\ router = "none"
  /\ router_mode' = IF router_mode = "cloud" /\ ~cloud_available
                    THEN "local" ELSE router_mode
  /\ local_fn' = "local"
  /\ cloud_fn' = IF router_mode \in {"cloud", "hybrid"} /\ cloud_available
                 THEN "cloud" ELSE "none"
  /\ router' = "pipeline"
  /\ UNCHANGED <<cloud_available, query, served, llm_backend>>
  /\ UNCHANGED <<ctlVars, wakeVars, recVars, playVars, synthVars, secVars, auditVars, restVars>>

\* QueryRouter.__init__ called with its own arguments; local_fn and cloud_fn
\* default to None
NewRouter ==
  \E mode \in RouterModes, lf \in {"none", "local"}, cf \in {"none", "cloud"} :
    /\ router = "none"
    /\ router_mode' = mode
    /\ local_fn' = lf
    /\ cloud_fn' = cf
    /\ router' = "bare"
    /\ UNCHANGED <<cloud_available, query, served, llm_backend>>
    /\ UNCHANGED <<ctlVars, wakeVars, recVars, playVars, synthVars, secVars, auditVars, restVars>>

\* QueryRouter.route(text), its generator consumed
Route ==
  \E text \in Queries :
    /\ router = "bare"
    /\ query' = text
    /\ served' = RouteServe(Decide(router_mode, text), local_fn, cloud_fn)
    /\ UNCHANGED <<router_mode, cloud_available, router, local_fn, cloud_fn,
                   llm_backend>>
    /\ UNCHANGED <<ctlVars, wakeVars, recVars, playVars, synthVars, secVars, auditVars, restVars>>

\* VoicePipeline.generate_response(prompt) and process_query's
\* metrics.llm_backend = backend, the generator consumed by speak_streaming
GenerateResponse ==
  \E text \in Queries :
    /\ router = "pipeline"
    /\ query' = text
    /\ llm_backend' = Decide(router_mode, text)
    /\ served' = RouteServe(Decide(router_mode, text), local_fn, cloud_fn)
    /\ UNCHANGED <<router_mode, cloud_available, router, local_fn, cloud_fn>>
    /\ UNCHANGED <<ctlVars, wakeVars, recVars, playVars, synthVars, secVars, auditVars, restVars>>

RouteNext == InitRouter \/ NewRouter \/ Route \/ GenerateResponse

RouteSpec == RouteInit /\ [][RouteNext]_vars

----------------------------------------------------------------------------
(* Claims about the query router (RouteSpec) *)

\* the backend _decide chose for the routed query
Chosen == Decide(router_mode, query)

\* C21: when the backend chosen by the routing decision is not configured and
\* the other one is, route serves the query from the other one: from the
\* local backend when cloud was chosen and cloud_fn is None, and from the
\* cloud backend when local was chosen and local_fn is None.
C21_FallsBackBothWays ==
  served # "none" =>
    /\ (Chosen = "cloud" /\ cloud_fn = "none" /\ local_fn # "none"
          => served = local_fn)
    /\ (Chosen = "local" /\ local_fn = "none" /\ cloud_fn # "none"
          => served = cloud_fn)

\* C36: the backend recorded in the interaction's metrics is the backend
\* whose stream function produced the response, in every router mode and also
\* when route falls back to the local backend.
C36_BackendRecorded ==
  (router = "pipeline" /\ served # "none") => llm_backend = served

\* what holds: the recorded backend is the one _decide chose, and it is the
\* one that served the query whenever the cloud backend is configured or the
\* mode is not hybrid
C36_RecordsDecision ==
  (router = "pipeline" /\ served # "none") =>
    /\ llm_backend = Chosen
    /\ (cloud_available \/ router_mode # "hybrid") => llm_backend = served

----------------------------------------------------------------------------
(* The audit log's text. A string is a sequence of symbols: a symbol is one *)
(* punctuation character, or a run of characters of [A-Za-z0-9_-] taken as  *)
(* a whole (a word, "a" standing for any such run without a role).          *)

\* the symbols that are not runs of [A-Za-z0-9_-]; "\\n" is the two
\* characters repr() writes for a newline
NonWordSyms == {" ", "\n", "'", ":", "=", ",", "{", "}", "[", "]", "|", ".",
                "\\n", "[REDACTED]", "operations/minute"}

\* [A-Za-z0-9_-]+
IsWordSym(c) == c \notin NonWordSyms

\* \s
IsWs(c) == c \in {" ", "\n"}

\* [^\s'",}]
IsValueSym(c) == c \notin {" ", "\n", "'", ",", "}"}

\* the first index from j on whose symbol is not white space
SkipWs(s, j) ==
  LET stop == {k \in j..Len(s) : ~IsWs(s[k])}
  IN  IF stop = {} THEN Len(s) + 1 ELSE CHOOSE k \in stop : \A m \in stop : k <= m

\* the first index from j on whose symbol is not of [A-Za-z0-9_-]
SkipWord(s, j) ==
  LET stop == {k \in j..Len(s) : ~IsWordSym(s[k])}
  IN  IF stop = {} THEN Len(s) + 1 ELSE CHOOSE k \in stop : \A m \in stop : k <= m

\* the first index from j on whose symbol is not of [^\s'",}]
SkipValue(s, j) ==
  LET stop == {k \in j..Len(s) : ~IsValueSym(s[k])}
  IN  IF stop = {} THEN Len(s) + 1 ELSE CHOOSE k \in stop : \A m \in stop : k <= m

\* one step of ['"]? : past a quote at j when there is one
SkipQuote(s, j) == IF j <= Len(s) /\ s[j] = "'" THEN j + 1 ELSE j

\* audit.py:21-22  sk-ant-[A-Za-z0-9_-]+ and ptr_[A-Za-z0-9_-]+
SECRET_PREFIXES == <<"sk-ant-", "ptr_">>

\* audit.py:23-25  (?i)password..., (?i)token..., (?i)secret...
SECRET_KEYWORDS == <<"password", "token", "secret">>

\* a match of prefix[A-Za-z0-9_-]+ starting at i: the index after it, 0 when
\* there is none
PrefixMatchEnd(s, i, prefix) ==
  IF s[i] = prefix /\ i + 1 <= Len(s) /\ IsWordSym(s[i + 1])
  THEN SkipWord(s, i + 1)
  ELSE 0

\* a match of keyword['"]?\s*[:=]\s*['"]?[^\s'",}]+ starting at i: the index
\* after it, 0 when there is none
KeywordMatchEnd(s, i, keyword) ==
  IF s[i] # keyword THEN 0
  ELSE LET sep == SkipWs(s, SkipQuote(s, i + 1))
       IN  IF sep > Len(s) \/ s[sep] \notin {":", "="} THEN 0
           ELSE LET val == SkipQuote(s, SkipWs(s, sep + 1))
                IN  IF val > Len(s) \/ ~IsValueSym(s[val]) THEN 0
                    ELSE SkipValue(s, val)

\* the match of pattern number n (1..5, in the order of _SECRET_PATTERNS)
\* starting at i
MatchEnd(s, i, n) ==
  IF n <= Len(SECRET_PREFIXES)
  THEN PrefixMatchEnd(s, i, SECRET_PREFIXES[n])
  ELSE KeywordMatchEnd(s, i, SECRET_KEYWORDS[n - Len(SECRET_PREFIXES)])

NumPatterns == Len(SECRET_PREFIXES) + Len(SECRET_KEYWORDS)

\* pattern.sub("[REDACTED]", text) from index i on: leftmost matches, not
\* overlapping
RECURSIVE SubFrom(_, _, _)
SubFrom(s, i, n) ==
  IF i > Len(s) THEN <<>>
  ELSE LET e == MatchEnd(s, i, n)
       IN  IF e > i THEN <<"[REDACTED]">> \o SubFrom(s, e, n)
           ELSE <<s[i]>> \o SubFrom(s, i + 1, n)

\* the loop of redact_secrets over the first n patterns
RECURSIVE RedactUpTo(_, _)
RedactUpTo(s, n) ==
  IF n = 0 THEN s ELSE SubFrom(RedactUpTo(s, n - 1), 1, n)

\* redact_secrets(text)
redact_secrets(text) == RedactUpTo(text, NumPatterns)

\* some pattern of _SECRET_PATTERNS matches somewhere in the text
HasSecret(s) ==
  \E i \in 1..Len(s), n \in 1..NumPatterns : MatchEnd(s, i, n) > i

\* "|".join(parts)
RECURSIVE Join(_)
Join(parts) ==
  IF parts = <<>> THEN <<>>
  ELSE IF Len(parts) = 1 THEN parts[1]
  ELSE parts[1] \o <<"|">> \o Join(Tail(parts))

\* datetime.now(timezone.utc).strftime("%Y-%m-%dT%H:%M:%SZ")
Timestamp == <<"T">>

\* AuditLogger.log up to the write: the line built from the arguments
\* (error = <<>> stands for None and for the empty string)
LogLine(status, action, params, error) ==
  LET parts == <<Timestamp, status, action, redact_secrets(params)>>
  IN  Join(IF error # <<>> THEN Append(parts, redact_secrets(error)) ELSE parts)

----------------------------------------------------------------------------
(* SecSpec: ContainerController.execute with its audit log, its rate        *)
(* limiter and the clock; the disk may refuse a write of the audit log.     *)

\* wrapper.py:114  now - t < 60
RATE_WINDOW == 60

\* allowlist.py:11  ALLOWED_CONTAINERS
ALLOWED_CONTAINERS == {<<"n8n">>, <<"postgres">>, <<"qdrant">>, <<"redis">>}

\* allowlist.py:19  ALLOWED_ACTIONS
ALLOWED_ACTIONS ==
  {<<"start">>, <<"stop">>, <<"restart">>, <<"logs">>, <<"status">>}

\* repr() of a str without quotes in it: quoted, a newline written as \n
Repr(s) ==
  <<"'">> \o [i \in 1..Len(s) |-> IF s[i] = "\n" THEN "\\n" ELSE s[i]] \o <<"'">>

\* str(params) for params = {"action": action, "container": container,
\* **kwargs}; kw is <<>> or one keyword argument <<name, value>>
ParamsStr(call) ==
  <<"{">> \o Repr(<<"action">>) \o <<":", " ">> \o Repr(call.action)
    \o <<",", " ">> \o Repr(<<"container">>) \o <<":", " ">>
    \o Repr(call.container)
    \o (IF call.kwargs = <<>> THEN <<>>
        ELSE <<",", " ">> \o Repr(<<call.kwargs[1]>>) \o <<":", " ">>
               \o Repr(call.kwargs[2]))
    \o <<"}">>

\* f"Action '{action}' not in allowlist. Allowed: {sorted(ALLOWED_ACTIONS)}"
ActionMsg(action) ==
  <<"Action", " ", "'">> \o action
    \o <<"'", " ", "not", " ", "in", " ", "allowlist", ".", " ",
         "Allowed", ":", " ", "[">>
    \o Repr(<<"logs">>) \o <<",", " ">> \o Repr(<<"restart">>) \o <<",", " ">>
    \o Repr(<<"start">>) \o <<",", " ">> \o Repr(<<"status">>) \o <<",", " ">>
    \o Repr(<<"stop">>) \o <<"]">>

\* f"Container '{container}' not in allowlist. Allowed: {sorted(...)}"
ContainerMsg(container) ==
  <<"Container", " ", "'">> \o container
    \o <<"'", " ", "not", " ", "in", " ", "allowlist", ".", " ",
         "Allowed", ":", " ", "[">>
    \o Repr(<<"n8n">>) \o <<",", " ">> \o Repr(<<"postgres">>) \o <<",", " ">>
    \o Repr(<<"qdrant">>) \o <<",", " ">> \o Repr(<<"redis">>) \o <<"]">>

\* f"Rate limit exceeded: {n} operations/minute. Try again in {m:.0f}s."
RateMsg ==
  <<"Rate", " ", "limit", " ", "exceeded", ":", " ", "N", " ",
    "operations/minute", ".", " ", "Try", " ", "again", " ", "in", " ",
    "Ns", ".">>

\* str(e) of the other exceptions execute can log
OtherMsg(type) ==
  IF type = "NotImplementedError"
  THEN <<"Production", " ", "Portainer", " ", "integration", " ", "not", " ",
         "yet", " ", "implemented">>
  ELSE IF type = "IndexError"
  THEN <<"list", " ", "index", " ", "out", " ", "of", " ", "range">>
  ELSE <<"Failed", " ", "to", " ", "write", " ", "audit", " ", "log">>

\* [t for t in self._operation_times if now - t < 60]
Prune(times, t_now) == SelectSeq(times, LAMBDA t : t_now - t < RATE_WINDOW)

\* the write of AuditLogger.log: open(self.log_file, "a") and
\* f.write(line + "\n")
FileAppend(file, line) == file \o line \o <<"\n">>

\* f.readlines(), each line without its line end
RECURSIVE ReadLines(_)
ReadLines(file) ==
  IF file = <<>> THEN <<>>
  ELSE LET ends == {i \in 1..Len(file) : file[i] = "\n"}
       IN  IF ends = {} THEN <<file>>
           ELSE LET e == CHOOSE i \in ends : \A j \in ends : i <= j
                IN  <<Take(file, e - 1)>> \o ReadLines(Drop(file, e))

\* lines[-n:]
LastN(lines, n) ==
  IF n = 0 THEN lines
  ELSE IF n > 0 THEN Drop(lines, IF Len(lines) > n THEN Len(lines) - n ELSE 0)
  ELSE Drop(lines, IF Len(lines) > -n THEN -n ELSE Len(lines))

\* AuditLogger.get_recent(n) on an existing file
get_recent(file, n) ==
  LET lines == LastN(ReadLines(file), n)
  IN  [i \in 1..Len(lines) |-> Strip(lines[i])]

\* mutant of ExecCall: a failed write of the ATTEMPT entry is passed over
ExecCallUnlogged(action, container, kwargs) ==
  /\ xpc = "idle"
  /\ nexec' = nexec + 1
  /\ cur' = [action |-> action, container |-> container, kwargs |-> kwargs]
  /\ exc' = [type |-> "none", msg |-> <<>>]
  /\ IF disk_ok
     THEN LET line == LogLine(<<"ATTEMPT">>, <<"execute">>, ParamsStr(cur'), <<>>)
          IN  /\ audit_file' = FileAppend(audit_file, line)
              /\ written' = Append(written, line)
              /\ xpc' = "validate"
              /\ result' = "pending"
     ELSE /\ xpc' = "validate"
          /\ result' = "pending"
          /\ UNCHANGED <<audit_file, written>>
  /\ UNCHANGED <<dev_mode, rate_limit, sec_now, disk_ok, operation_times,
                 executed, passed, recent>>
  /\ UNCHANGED <<ctlVars, wakeVars, recVars, playVars, synthVars, routeVars, auditVars, restVars>>

\* execute up to and with self.audit.log("ATTEMPT", ...): the entry is
\* written, or the write fails and AuditError leaves execute
ExecCall(action, container, kwargs) ==
  /\ xpc = "idle"
  /\ nexec' = nexec + 1
  /\ cur' = [action |-> action, container |-> container, kwargs |-> kwargs]
  /\ exc' = [type |-> "none", msg |-> <<>>]
  /\ IF disk_ok
     THEN LET line == LogLine(<<"ATTEMPT">>, <<"execute">>, ParamsStr(cur'), <<>>)
          IN  /\ audit_file' = FileAppend(audit_file, line)
              /\ written' = Append(written, line)
              /\ xpc' = "validate"
              /\ result' = "pending"
     ELSE /\ xpc' = "idle"
          /\ result' = "AuditError"
          /\ UNCHANGED <<audit_file, written>>
  /\ UNCHANGED <<dev_mode, rate_limit, sec_now, disk_ok, operation_times,
                 executed, passed, recent>>
  /\ UNCHANGED <<ctlVars, wakeVars, recVars, playVars, synthVars, routeVars, auditVars, restVars>>

\* mutant of ExecValidate: the time of a request is recorded before the
\* limit is tested
ExecValidateCountsDenied ==
  /\ xpc = "validate"
  /\ IF cur.action \notin ALLOWED_ACTIONS
     THEN /\ exc' = [type |-> "AllowlistError", msg |-> ActionMsg(cur.action)]
          /\ xpc' = "denied"
          /\ UNCHANGED <<operation_times, passed>>
     ELSE IF cur.container \notin ALLOWED_CONTAINERS
     THEN /\ exc' = [type |-> "AllowlistError",
                     msg |-> ContainerMsg(cur.container)]
          /\ xpc' = "denied"
          /\ UNCHANGED <<operation_times, passed>>
     ELSE LET pruned == Prune(operation_times, sec_now)
          IN  IF Len(pruned) >= rate_limit
              THEN \* the message reads self._operation_times[0]
                   /\ operation_times' = Append(pruned, sec_now)
                   /\ UNCHANGED passed
                   /\ IF pruned = <<>>
                      THEN /\ exc' = [type |-> "IndexError",
                                      msg |-> OtherMsg("IndexError")]
                           /\ xpc' = "error"
                      ELSE /\ exc' = [type |-> "RateLimitError", msg |-> RateMsg]
                           /\ xpc' = "denied"
              ELSE /\ operation_times' = Append(pruned, sec_now)
                   /\ passed' = Append(passed, sec_now)
                   /\ xpc' = "run"
                   /\ UNCHANGED exc
  /\ UNCHANGED <<dev_mode, rate_limit, sec_now, disk_ok, audit_file, cur,
                 result, executed, written, recent, nexec>>
  /\ UNCHANGED <<ctlVars, wakeVars, recVars, playVars, synthVars, routeVars, auditVars, restVars>>

\* _validate_action, _validate_container and _check_rate_limit
ExecValidate ==
  /\ xpc = "validate"
  /\ IF cur.action \notin ALLOWED_ACTIONS
     THEN /\ exc' = [type |-> "AllowlistError", msg |-> ActionMsg(cur.action)]
          /\ xpc' = "denied"
          /\ UNCHANGED <<operation_times, passed>>
     ELSE IF cur.container \notin ALLOWED_CONTAINERS
     THEN /\ exc' = [type |-> "AllowlistError",
                     msg |-> ContainerMsg(cur.container)]
          /\ xpc' = "denied"
          /\ UNCHANGED <<operation_times, passed>>
     ELSE LET pruned == Prune(operation_times, sec_now)
          IN  IF Len(pruned) >= rate_limit
              THEN \* the message reads self._operation_times[0]
                   /\ operation_times' = pruned
                   /\ UNCHANGED passed
                   /\ IF pruned = <<>>
                      THEN /\ exc' = [type |-> "IndexError",
                                      msg |-> OtherMsg("IndexError")]
                           /\ xpc' = "error"
                      ELSE /\ exc' = [type |-> "RateLimitError", msg |-> RateMsg]
                           /\ xpc' = "denied"
              ELSE /\ operation_times' = Append(pruned, sec_now)
                   /\ passed' = Append(passed, sec_now)
                   /\ xpc' = "run"
                   /\ UNCHANGED exc
  /\ UNCHANGED <<dev_mode, rate_limit, sec_now, disk_ok, audit_file, cur,
                 result, executed, written, recent, nexec>>
  /\ UNCHANGED <<ctlVars, wakeVars, recVars, playVars, synthVars, routeVars, auditVars, restVars>>

\* _execute_portainer
ExecRun ==
  /\ xpc = "run"
  /\ IF dev_mode
     THEN /\ executed' = Append(executed, <<cur.action, cur.container>>)
          /\ xpc' = "success"
          /\ UNCHANGED exc
     ELSE /\ exc' = [type |-> "NotImplementedError",
                     msg |-> OtherMsg("NotImplementedError")]
          /\ xpc' = "error"
          /\ UNCHANGED executed
  /\ UNCHANGED <<dev_mode, rate_limit, sec_now, disk_ok, operation_times,
                 audit_file, cur, result, passed, written, recent, nexec>>
  /\ UNCHANGED <<ctlVars, wakeVars, recVars, playVars, synthVars, routeVars, auditVars, restVars>>

\* self.audit.log("SUCCESS", ...) and return result; an AuditError raised by
\* the write is caught by `except Exception`
LogSuccess ==
  /\ xpc = "success"
  /\ IF disk_ok
     THEN LET line == LogLine(<<"SUCCESS">>, <<"execute">>, ParamsStr(cur), <<>>)
          IN  /\ audit_file' = FileAppend(audit_file, line)
              /\ written' = Append(written, line)
              /\ xpc' = "idle"
              /\ result' = "ok"
              /\ UNCHANGED exc
     ELSE /\ exc' = [type |-> "AuditError", msg |-> OtherMsg("AuditError")]
          /\ xpc' = "error"
          /\ UNCHANGED <<audit_file, written, result>>
  /\ UNCHANGED <<dev_mode, rate_limit, sec_now, disk_ok, operation_times, cur,
                 executed, passed, recent, nexec>>
  /\ UNCHANGED <<ctlVars, wakeVars, recVars, playVars, synthVars, routeVars, auditVars, restVars>>

\* except (AllowlistError, RateLimitError): self.audit.log("DENIED", ...,
\* error=str(e)) and raise; when the write fails AuditError leaves execute
LogDenied ==
  /\ xpc = "denied"
  /\ xpc' = "idle"
  /\ IF disk_ok
     THEN LET line == LogLine(<<"DENIED">>, <<"execute">>, ParamsStr(cur), exc.msg)
          IN  /\ audit_file' = FileAppend(audit_file, line)
              /\ written' = Append(written, line)
              /\ result' = exc.type
     ELSE /\ result' = "AuditError"
          /\ UNCHANGED <<audit_file, written>>
  /\ UNCHANGED <<dev_mode, rate_limit, sec_now, disk_ok, operation_times, cur,
                 exc, executed, passed, recent, nexec>>
  /\ UNCHANGED <<ctlVars, wakeVars, recVars, playVars, synthVars, routeVars, auditVars, restVars>>

\* except Exception: self.audit.log("ERROR", ..., error=str(e)) and raise;
\* when the write fails AuditError leaves execute
LogError ==
  /\ xpc = "error"
  /\ xpc' = "idle"
  /\ IF disk_ok
     THEN LET line == LogLine(<<"ERROR">>, <<"execute">>, ParamsStr(cur), exc.msg)
          IN  /\ audit_file' = FileAppend(audit_file, line)
              /\ written' = Append(written, line)
              /\ result' = exc.type
     ELSE /\ result' = "AuditError"
          /\ UNCHANGED <<audit_file, written>>
  /\ UNCHANGED <<dev_mode, rate_limit, sec_now, disk_ok, operation_times, cur,
                 exc, executed, passed, recent, nexec>>
  /\ UNCHANGED <<ctlVars, wakeVars, recVars, playVars, synthVars, routeVars, auditVars, restVars>>

\* self.audit.get_recent(n) between two calls of execute
GetRecent ==
  \E n \in 0..MaxRecent :
    /\ xpc = "idle"
    /\ recent' = [n |-> n, lines |-> get_recent(audit_file, n)]
    /\ UNCHANGED <<dev_mode, rate_limit, sec_now, disk_ok, operation_times,
                   audit_file, xpc, cur, exc, result, executed, passed,
                   written, nexec>>
    /\ UNCHANGED <<ctlVars, wakeVars, recVars, playVars, synthVars, routeVars, auditVars, restVars>>

\* time.time() moves on
SecTick ==
  /\ sec_now + TickSeconds <= MaxSecNow
  /\ sec_now' = sec_now + TickSeconds
  /\ UNCHANGED <<dev_mode, rate_limit, disk_ok, operation_times, audit_file,
                 xpc, cur, exc, result, executed, passed, written, recent,
                 nexec>>
  /\ UNCHANGED <<ctlVars, wakeVars, recVars, playVars, synthVars, routeVars, auditVars, restVars>>

\* the disk under the audit log fills up, or has room again
DiskChange ==
  /\ disk_ok' = ~disk_ok
  /\ UNCHANGED <<dev_mode, rate_limit, sec_now, operation_times, audit_file,
                 xpc, cur, exc, result, executed, passed, written, recent,
                 nexec>>
  /\ UNCHANGED <<ctlVars, wakeVars, recVars, playVars, synthVars, routeVars, auditVars, restVars>>

\* execute(action, container, **kwargs) as a record of its arguments;
\* kwargs is <<>> or one keyword argument <<name, value>>
Call(action, container, kwargs) ==
  [action |-> action, container |-> container, kwargs |-> kwargs]

\* the calls made in SecSpec
SecCalls ==
  { Call(<<"restart">>, <<"n8n">>, <<>>),
    Call(<<"status">>, <<"redis">>, <<"token", <<"ptr_", "a">> >>),
    Call(<<"delete">>, <<"n8n">>, <<>>),
    Call(<<"restart">>, <<"evil">>, <<>>),
    Call(<<"exec">>, <<"evil">>, <<>>),
    Call(<<"a", "\n", "a">>, <<"n8n">>, <<>>) }

\* the rate limits a controller is constructed with
RateLimits == 0..MaxRate

\* a controller constructed in dev mode or not, with some rate limit, on an
\* empty audit directory
SecInit ==
  /\ VoiceIdle
  /\ useWake = FALSE
  /\ RouterIdle
  /\ \E dm \in BOOLEAN, rl \in RateLimits : SecFresh(dm, rl)
  /\ CfgIdle
  /\ CloudIdle

SecNext ==
  \/ \E c \in SecCalls :
       nexec < MaxExec /\ ExecCall(c.action, c.container, c.kwargs)
  \/ ExecValidate
  \/ ExecRun
  \/ LogSuccess
  \/ LogDenied
  \/ LogError
  \/ GetRecent

SecSpec == SecInit /\ [][SecNext]_vars

\* AuditLogger.log(status, action, params, error) called by a caller other
\* than execute
AuditLog(status, action, params, error) ==
  /\ xpc = "idle"
  /\ disk_ok
  /\ log_args' = [status |-> status, action |-> action, params |-> params,
                  error |-> error]
  /\ LET line == LogLine(status, action, params, error)
     IN  /\ audit_file' = FileAppend(audit_file, line)
         /\ written' = Append(written, line)
  /\ UNCHANGED <<dev_mode, rate_limit, sec_now, disk_ok, operation_times, xpc,
                 cur, exc, result, executed, passed, recent, nexec>>
  /\ UNCHANGED <<ctlVars, wakeVars, recVars, playVars, synthVars, routeVars, restVars>>

\* the symbols of the texts logged in AuditSpec
AuditAlphabet == {"a", " ", "'", ":", "=", ",", "|", "sk-ant-", "ptr_",
                  "password", "secret"}

\* every text of up to MaxText symbols
AuditTexts == UNION {[1..n -> AuditAlphabet] : n \in 0..MaxText}

\* the params a caller logs: any short text, and the str() of a dict that
\* holds a password
AuditParams ==
  AuditTexts \cup
    { ParamsStr(Call(<<"status">>, <<"n8n">>,
                     <<"password", <<"hunter", " ", "two">> >>)) }

\* the operation names a caller logs
AuditActions == {<<"execute">>, <<"op_", "a">>, <<"use", " ", "ptr_", "a">>}

\* the error texts a caller logs (<<>> for None)
AuditErrors == {<<>>, <<"Not", " ", "allowed">>, <<"bad", " ", "token", "=", "a">>}

AuditNext ==
  /\ audit_file = <<>>
  /\ \E status \in {<<"ATTEMPT">>, <<"DENIED">>}, action \in AuditActions,
        params \in AuditParams, error \in AuditErrors :
       AuditLog(status, action, params, error)

\* an AuditLogger on an empty directory
AuditInit ==
  /\ VoiceIdle
  /\ useWake = FALSE
  /\ RouterIdle
  /\ SecIdle
  /\ CfgIdle
  /\ CloudIdle

\* AuditSpec: one entry written by AuditLogger.log, over every short text
AuditSpec == AuditInit /\ [][AuditNext]_vars

\* the calls made in RateSpec
RateCalls ==
  { Call(<<"status">>, <<"n8n">>, <<>>),
    Call(<<"delete">>, <<"n8n">>, <<>>) }

\* RateSpec: execute called again and again while the clock moves on
RateNext ==
  \/ \E c \in RateCalls :
       nexec < MaxRateCalls /\ ExecCall(c.action, c.container, c.kwargs)
  \/ ExecValidate
  \/ ExecRun
  \/ LogSuccess
  \/ LogDenied
  \/ LogError
  \/ SecTick

RateSpec == SecInit /\ [][RateNext]_vars

----------------------------------------------------------------------------
(* Claims about ContainerController.execute (SecSpec) *)

\* is_allowed(action, container) for the call in progress or just ended
CallAllowed == cur.action \in ALLOWED_ACTIONS /\ cur.container \in ALLOWED_CONTAINERS

\* an execute call has ended and none is in progress
CallEnded == xpc = "idle" /\ nexec > 0

\* C22: an operation is performed and ok returned only for an allowed action
\* on an allowed container; a call with any other action or container ends
\* with AllowlistError and its operation is never performed; and an allowed
\* call within the rate limit (fewer than rate_limit calls were made before
\* it) performs its operation and returns ok.
C22_AllowlistGate ==
  /\ \A i \in 1..Len(executed) :
       executed[i][1] \in ALLOWED_ACTIONS /\ executed[i][2] \in ALLOWED_CONTAINERS
  /\ CallEnded =>
       /\ (result = "ok" => CallAllowed)
       /\ (~CallAllowed => result = "AllowlistError")
       /\ (CallAllowed /\ nexec <= rate_limit =>
             /\ result = "ok"
             /\ executed # <<>>
             /\ executed[Len(executed)] = <<cur.action, cur.container>>)

\* the status field of an audit entry: timestamp|status|action|params
StatusOf(entry) == entry[3]

\* the last n of the entries written, in write order
LastEntries(n) ==
  Drop(written, IF Len(written) > n THEN Len(written) - n ELSE 0)

\* s is a prefix of t
IsPrefix(s, t) == Len(s) <= Len(t) /\ Take(t, Len(s)) = s

\* the entries of the call numbered k: its ATTEMPT entry and its one outcome
CallEntries(k) ==
  /\ StatusOf(written[2 * k - 1]) = "ATTEMPT"
  /\ StatusOf(written[2 * k]) \in {"SUCCESS", "DENIED", "ERROR"}

\* C24: while execute validates or runs a call, the last entry of the log is
\* that call's ATTEMPT entry; when calls have ended the log holds, for each,
\* its ATTEMPT entry followed by exactly one outcome entry (SUCCESS, DENIED
\* or ERROR); every write appends to the file and leaves what was there; and
\* get_recent(n) returns the last n entries written, in write order.
C24_AuditTrail ==
  /\ [](xpc \in {"validate", "run", "success", "denied", "error"} =>
          /\ Len(written) = 2 * nexec - 1
          /\ written[Len(written)]
               = LogLine(<<"ATTEMPT">>, <<"execute">>, ParamsStr(cur), <<>>))
  /\ [](xpc = "idle" =>
          /\ Len(written) = 2 * nexec
          /\ \A k \in 1..nexec : CallEntries(k))
  /\ [][IsPrefix(audit_file, audit_file') /\ IsPrefix(written, written')]_vars
  /\ [][recent' # recent =>
          recent'.lines = [i \in 1..Len(LastEntries(recent'.n)) |->
                             Strip(LastEntries(recent'.n)[i])]]_vars

----------------------------------------------------------------------------
(* Claims about redaction in the audit log (AuditSpec) *)

\* the value of the password the logged dict holds
PasswordValue == <<"hunter", " ", "two">>

\* the text has a symbol of the password's value other than white space
ShowsPassword(line) ==
  \E i \in 1..Len(line), j \in 1..Len(PasswordValue) :
    ~IsWs(PasswordValue[j]) /\ line[i] = PasswordValue[j]

\* line.split("|"): the fields of a line of the log
RECURSIVE Fields(_)
Fields(line) ==
  LET bars == {i \in 1..Len(line) : line[i] = "|"}
  IN  IF bars = {} THEN <<line>>
      ELSE LET b == CHOOSE i \in bars : \A j \in bars : i <= j
           IN  <<Take(line, b - 1)>> \o Fields(Drop(line, b))

\* a field of the line holds a match of a redaction pattern
LineHasSecret(line) == \E k \in 1..Len(Fields(line)) : HasSecret(Fields(line)[k])

\* C25: no field of a line of the audit log contains a match of a redaction
\* pattern, or a part of a logged password's value, and an entry whose
\* arguments hold no such match is written as given:
\* timestamp|status|action|params[|error].
C25_NoSecretInLog ==
  /\ \A i \in 1..Len(ReadLines(audit_file)) :
       /\ ~LineHasSecret(ReadLines(audit_file)[i])
       /\ ~ShowsPassword(ReadLines(audit_file)[i])
  /\ (written # <<>> /\ nexec = 0
        /\ ~HasSecret(log_args.action) /\ ~HasSecret(log_args.params)
        /\ ~HasSecret(log_args.error)) =>
       written[1] = Join(IF log_args.error # <<>>
                         THEN <<Timestamp, log_args.status, log_args.action,
                                log_args.params, log_args.error>>
                         ELSE <<Timestamp, log_args.status, log_args.action,
                                log_args.params>>)

----------------------------------------------------------------------------
(* Claims about the rate limiter (RateSpec) *)

\* the requests that passed the rate check less than 60 seconds before t
RecentPasses(t) == Cardinality({i \in 1..Len(passed) : t - passed[i] < RATE_WINDOW})

\* the requests that passed the rate check in the 60 seconds from passed[i] on
PassesFrom(i) ==
  Cardinality({j \in 1..Len(passed) :
                 passed[i] <= passed[j] /\ passed[j] - passed[i] < RATE_WINDOW})

\* the step that takes an allowed request through _check_rate_limit
RateChecked == xpc = "validate" /\ xpc' # "validate" /\ CallAllowed

\* C23: no 60-second window holds more than rate_limit requests that passed
\* the rate check; a request checked while rate_limit requests passed within
\* the last 60 seconds raises RateLimitError; a request checked when fewer
\* did (the earlier ones being older than 60 seconds) passes, with the old
\* times pruned, and succeeds.
C23_SlidingWindow ==
  /\ [](\A i \in 1..Len(passed) : PassesFrom(i) <= rate_limit)
  /\ [][ RateChecked /\ RecentPasses(sec_now) >= rate_limit
           => xpc' = "denied" /\ exc'.type = "RateLimitError" ]_vars
  /\ [][ RateChecked /\ RecentPasses(sec_now) < rate_limit
           => /\ xpc' = "run"
              /\ \A i \in 1..Len(operation_times') :
                   sec_now - operation_times'[i] < RATE_WINDOW ]_vars
  /\ [](CallEnded /\ CallAllowed => result \in {"ok", "RateLimitError"})

\* the step is the validation of the call in progress, and it rejects it
ValidationRejects == xpc = "validate" /\ xpc' \in {"denied", "error"}

\* the entries of the window's record that are less than 60 seconds old
StillInWindow(times) == SelectSeq(times, LAMBDA t : sec_now - t < RATE_WINDOW)

\* C39: a request rejected during validation records no operation time: an
\* allowlist rejection leaves _operation_times as it is and a rate-limit
\* rejection only drops the entries older than 60 seconds; no step after the
\* validation changes the record, and a request is let through whenever fewer
\* than rate_limit requests passed in the last 60 seconds, however many were
\* rejected in between.
C39_DeniedCostsNothing ==
  /\ [][ (ValidationRejects /\ ~CallAllowed)
          => operation_times' = operation_times /\ passed' = passed ]_vars
  /\ [][ (ValidationRejects /\ CallAllowed)
          => operation_times' = StillInWindow(operation_times)
               /\ passed' = passed ]_vars
  /\ [][ xpc # "validate" => operation_times' = operation_times ]_vars
  /\ [][ (RateChecked /\ RecentPasses(sec_now) < rate_limit) => xpc' = "run" ]_vars

\* the third or a later request has just been rejected by the rate limiter,
\* and the record still holds exactly the one request that passed
C39_Witness ==
  /\ xpc = "denied"
  /\ exc.type = "RateLimitError"
  /\ Len(operation_times) = 1
  /\ Len(passed) = 1
  /\ nexec >= 3

----------------------------------------------------------------------------
(* Claims about the pipeline state (Spec) *)

\* _state changes from a to b in this step
Move(a, b) == state = a /\ state' = b

\* the interaction in progress ends without having spoken: run()'s finally is
\* reached while _state is still PROCESSING (no buffer was taken for playback)
InteractionFailed == pc = "fin_state" /\ state = "PROCESSING"

\* C26: _state is always one of the four states, and every change of it is
\* WAITING->LISTENING, LISTENING->WAITING, LISTENING->PROCESSING (with an
\* utterance that has speech in it), PROCESSING->SPEAKING, SPEAKING->WAITING
\* in wake-word mode, SPEAKING->LISTENING in always-listening mode, or
\* PROCESSING->WAITING/LISTENING when the interaction failed.
C26_Transitions ==
  /\ [](state \in PipelineState)
  /\ [][ state' # state =>
           \/ Move("WAITING", "LISTENING")
           \/ Move("LISTENING", "WAITING")
           \/ (Move("LISTENING", "PROCESSING") /\ has_speech /\ chunk_count > 0)
           \/ Move("PROCESSING", "SPEAKING")
           \/ (useWake /\ Move("SPEAKING", "WAITING"))
           \/ (~useWake /\ Move("SPEAKING", "LISTENING"))
           \/ (InteractionFailed /\ Move("PROCESSING", FinallyState)) ]_vars

\* a step of the main control thread: the position of run() changes; the
\* worker threads' steps leave pc alone
MainThreadStep == pc' # pc

\* a step of a playback worker / of the wake-word audio callback
WorkerStep == wpc' # wpc
CallbackStep == cbPc' # cbPc

\* C27: _state is written only by the thread running run(): every step that
\* changes _state is a step of the main thread, and no step of a playback
\* worker or of the wake-word audio callback changes it.
C27_SingleWriter ==
  [][ state' # state => MainThreadStep /\ ~WorkerStep /\ ~CallbackStep ]_vars

\* C27 (amended): _state is written by the thread running run(), and by a
\* playback worker only to set SPEAKING when it takes a buffer to play; the
\* wake-word audio callback never changes it (it only sets the wake event).
C27_WorkerWritesSpeaking ==
  /\ [][ state' # state =>
           \/ MainThreadStep /\ ~WorkerStep /\ ~CallbackStep
           \/ WorkerStep /\ ~MainThreadStep /\ ~CallbackStep
                /\ state' = "SPEAKING" ]_vars
  /\ [][ CallbackStep => state' = state ]_vars

\* in wake-word mode (the callback has raised the wake event of this
\* interaction) a worker has just taken a buffer and set SPEAKING
C27_Witness ==
  /\ state = "SPEAKING"
  /\ \E c \in Calls : wpc[c] = "wait"
  /\ useWake

\* the steps of the two threads that touch the wake-word model
PredictStep == cbPc = "predict" /\ cbPc' # "predict"
ResetStep == pc \in {"ns_reset", "fin_reset"} /\ pc' \notin {"ns_reset", "fin_reset"}

\* C28: model.predict runs only while the gate is active (never between a
\* pause() and the resume() that follows it, also for a callback that had
\* passed its _active test before pause() was called), and the reset() of
\* resume() never runs while the callback is between its _active test and
\* the end of predict.
C28_PredictOnlyWhileActive ==
  /\ [][ PredictStep => active ]_vars
  /\ [][ ResetStep => cbPc # "predict" ]_vars

\* what the _active test does guarantee: a callback starts scoring a frame
\* only when it found the gate active
C28_CheckedAtEntry == [][ cbPc = "idle" /\ cbPc' = "predict" => active ]_vars

\* the playback worker of call c has been started and has not returned
WorkerAlive(c) == wpc[c] \in {"get", "wait"}

\* C29: at most one playback worker is alive at any time: a speak_streaming
\* call never starts its worker while the worker of an earlier call is alive,
\* and a worker never starts a buffer (sd.play) while a buffer of another
\* call is on the device.
C29_OneWorker ==
  /\ [](\A c, d \in Calls : WorkerAlive(c) /\ WorkerAlive(d) => c = d)
  /\ [][ \A c \in Calls :
           (wpc[c] = "get" /\ wpc'[c] = "wait" /\ device # <<>>)
             => device[1] = c ]_vars

\* record_audio opens its input stream and enters its loop
RecordingStarts == pc = "rec_open" /\ pc' = "rec_loop"

\* C30: an utterance holds only frames captured during its own LISTENING
\* episode. The callback puts frames on self._audio_queue only while a stream
\* is open and the loop takes them oldest first, so this is: a recording never
\* starts with a frame of an earlier recording waiting in the queue (the first
\* get of the loop would return that frame and the loop would count it and
\* test it for end-of-speech).
C30_OwnFramesOnly == [][ RecordingStarts => mic_queue = <<>> ]_vars

\* what holds inside one episode: frames are taken oldest first, one per pass
C30_TakenInOrder ==
  [][ (pc = "rec_loop" /\ mic_queue' # mic_queue /\ ~(\E f \in {"loud", "quiet"} : mic_queue' = Append(mic_queue, f)))
        => mic_queue # <<>> /\ mic_queue' = Tail(mic_queue)
             /\ chunk_count' = chunk_count + 1 ]_vars

----------------------------------------------------------------------------
(* EndSpec: the loop of record_audio with the frame counts computed from the *)
(* configured silence duration, sample rate and block size, over every       *)
(* sequence of loud and quiet frames.                                        *)

\* the configured values of SILENCE_DURATION (ms) and of SAMPLE_RATE and
\* BLOCK_SIZE the loop runs with; for each of them int() of the float product
\* is the floor of the exact quotient
SilenceDurations == {50, 100, 500, 1000}
SampleFormats == {<<16000, 1024>>, <<16000, 1600>>, <<8000, 1024>>, <<16000, 512>>}

\* silence_chunks_needed = int(self.SILENCE_DURATION * chunks_per_second), with
\* chunks_per_second = self.SAMPLE_RATE / self.BLOCK_SIZE and D in milliseconds
silence_chunks_needed(D, R, B) == (D * R) \div (1000 * B)

\* max_chunks = int(self.MAX_RECORD_SECONDS * chunks_per_second)
max_chunks(R, B) == (MAX_RECORD_SECONDS * R) \div B

EndInit ==
  /\ RecIdle
  /\ RouterIdle
  /\ SecIdle
  /\ CloudIdle
  /\ silence_ms \in SilenceDurations
  /\ \E f \in SampleFormats : sample_rate = f[1] /\ block_size = f[2]

\* one pass of the loop of record_audio as configured
EndLoop ==
  RecLoopWith(silence_chunks_needed(silence_ms, sample_rate, block_size),
              max_chunks(sample_rate, block_size))

EndNext == RecOpen \/ EndLoop \/ RecClose \/ RecordCallback

EndSpec == EndInit /\ [][EndNext]_vars

----------------------------------------------------------------------------
(* Claims about the end of an utterance (EndSpec) *)

\* a trailing run of n below-threshold frames amounts to at least the
\* configured silence duration: n * BLOCK_SIZE / SAMPLE_RATE >= D
AmountsToSilence(n) == n * block_size * 1000 >= silence_ms * sample_rate

\* the loop has ended, and not because chunk_count reached max_chunks
EndedOnSilence ==
  /\ pc = "rec_close"
  /\ has_speech
  /\ chunk_count < max_chunks(sample_rate, block_size)

\* C31: once speech has been heard the loop ends on the frame at which the
\* trailing run of below-threshold frames first amounts to at least D seconds:
\* it does not go on once the run amounts to D, and when it has ended on
\* silence the run amounts to D and one frame less did not.
C31_EndsAfterSilence ==
  /\ pc = "rec_loop" /\ has_speech => ~AmountsToSilence(silence_chunks)
  /\ EndedOnSilence =>
       /\ AmountsToSilence(silence_chunks)
       /\ ~AmountsToSilence(silence_chunks - 1)

\* what the loop does: it ends on the frame at which the trailing run first
\* reaches int(D * R / B) frames, which is less than one frame period short of
\* D, or, when int(D * R / B) is 0, on the first loud frame
C31_EndsAtFrameCount ==
  LET needed == silence_chunks_needed(silence_ms, sample_rate, block_size)
  IN  /\ pc = "rec_loop" /\ has_speech => silence_chunks < needed
      /\ EndedOnSilence =>
           /\ silence_chunks = needed
           /\ AmountsToSilence(silence_chunks + 1)

----------------------------------------------------------------------------
(* Claims about the text handed to synthesis (SynthSpec) *)

\* the characters of a sequence of texts, in order
RECURSIVE FlatText(_)
FlatText(texts) ==
  IF texts = <<>> THEN <<>> ELSE Head(texts) \o FlatText(Tail(texts))

\* the text without its whitespace
NonWs(s) == SelectSeq(s, LAMBDA c : ~IsSpace(c))

\* the text without its i-th character
RemoveAt(s, i) == Take(s, i - 1) \o Drop(s, i)

\* the text generated so far, and what has become of it: the units flushed and,
\* inside the loop, the buffer
Generated == FlatText(Take(tokens, tpos))
Kept == IF pc = "spk_loop" THEN FlatText(units) \o buffer ELSE FlatText(units)

\* nothing of the generated text is missing but whitespace
KeptWhole == NonWs(Kept) = NonWs(Generated)

\* nothing is missing but whitespace and one comma
KeptButOneComma ==
  \E i \in 1..Len(Generated) :
    Generated[i] = "," /\ NonWs(Kept) = NonWs(RemoveAt(Generated, i))

\* C34: the units in order (with the buffer, while the loop runs) hold every
\* non-whitespace character of the generated text once and in generation
\* order, except for one comma that only an early split removes; when the
\* fragments are exhausted the non-empty remainder is flushed as the last unit.
C34_NothingLost ==
  /\ [](pc \in {"spk_loop", "spk_put"} => KeptWhole \/ KeptButOneComma)
  /\ [][ (KeptWhole /\ ~KeptWhole')
          => /\ TakesFragment /\ FlushesUnit /\ units = <<>>
             /\ ~TerminalEnd(Appended) /\ HasComma(Appended) ]_vars
  /\ [][ (pc = "spk_loop" /\ pc' = "spk_put")
          => /\ tpos = Len(tokens)
             /\ IF Strip(buffer) = <<>> THEN units' = units
                ELSE units' = Append(units, Strip(buffer)) ]_vars

\* a response that was split early at a comma and ended with a remainder:
\* the comma is the only non-whitespace character not in the units
C34_Witness ==
  /\ pc = "spk_put"
  /\ Len(units) >= 2
  /\ ~KeptWhole
  /\ units[Len(units)] = Strip(buffer)

\* the step is an early flush that splits the buffer at its last comma
EarlySplitAtComma ==
  /\ TakesFragment /\ FlushesUnit
  /\ ~TerminalEnd(Appended)
  /\ units = <<>>
  /\ RFindComma(Appended) >= MIN_SPLIT_IDX

\* C35: an early flush at a comma keeps the text after the comma in the buffer
\* unchanged but for the whitespace directly after the comma, so the whitespace
\* at its end still separates it from the next fragment; the fragments
\* "aaaaaaaaaa" ", " "I think " "so." are spoken as "aaaaaaaaaa" and
\* "I think so.".
C35_RemainderIntact ==
  /\ [][ EarlySplitAtComma
          => buffer' = LStrip(Drop(Appended, RFindComma(Appended) + 1)) ]_vars
  /\ [](tokens = SpaceExample /\ pc = "spk_put"
          => units = <<F_A10, F_IThink \o F_So>>)

\* what the early flush keeps: the text after the comma without the
\* whitespace at either end
C35_RemainderStripped ==
  [][ EarlySplitAtComma
        => buffer' = Strip(Drop(Appended, RFindComma(Appended) + 1)) ]_vars

----------------------------------------------------------------------------
(* WakeSpec: run() in wake-word mode with the wake detector's callback as    *)
(* its three steps and the clock its cooldown reads. record_audio and        *)
(* process_query are one step: they touch neither the gate nor the wake      *)
(* event. A second passes only while the main thread is blocked (in          *)
(* _wake_event.wait or inside an interaction) and no callback is in          *)
(* progress: the statements in between and a callback take milliseconds.     *)

WakeInit ==
  /\ VoiceIdle
  /\ useWake = TRUE
  /\ SvcIdle

\* audio = self.record_audio(), and process_query(audio) up to the finally
\* clause when audio is not None
Interact ==
  /\ pc = "rec_open"
  /\ \/ /\ pc' = "ns_reset"
        /\ UNCHANGED <<state, ncalls>>
     \/ /\ ncalls < MaxCalls
        /\ ncalls' = ncalls + 1
        /\ state' \in {"PROCESSING", "SPEAKING"}
        /\ pc' = "fin_reset"
  /\ UNCHANGED <<useWake, pend, intAt, caught, running>>
  /\ UNCHANGED <<wakeVars, recVars, playVars, synthVars, svcVars>>

\* self._model.predict(audio_chunk), the threshold test and the cooldown test
\* with self._last_trigger_time = now
TimedPredict ==
  /\ cbPc = "predict"
  /\ \E score \in Scores :
       IF AboveThreshold(score) /\ ~InCooldown(now, last_trigger_time)
       THEN last_trigger_time' = now /\ cbPc' = "on_wake"
       ELSE cbPc' = "idle" /\ UNCHANGED last_trigger_time
  /\ engine' = Fed(engine)
  /\ UNCHANGED <<wake_event, active, detRunning, wakeStream, now, hits, svcVars>>
  /\ UNCHANGED <<ctlVars, recVars, playVars, synthVars>>

\* a second passes
WakeTick ==
  /\ now < MaxWakeNow
  /\ cbPc = "idle"
  /\ (pc = "wait" /\ ~wake_event) \/ pc = "rec_open"
  /\ now' = now + 1
  /\ UNCHANGED <<last_trigger_time, hits>>
  /\ UNCHANGED <<wake_event, active, detRunning, wakeStream, cbPc, engine>>
  /\ UNCHANGED <<ctlVars, recVars, playVars, synthVars, svcVars>>

WakeMain ==
  \/ Start \/ LoopTop \/ WaitWake \/ ClearWake \/ Pause \/ ToListening
  \/ Interact \/ ResumeReset \/ ResumeSet \/ NoSpeechState \/ FinallySetState

WakeNext == WakeMain \/ WakeCheck \/ TimedPredict \/ WakeTrigger \/ WakeTick

WakeSpec == WakeInit /\ [][WakeNext]_vars

----------------------------------------------------------------------------
(* Claims about wake triggers and interactions (WakeSpec) *)

\* the callback invokes _on_wake_detected: self._wake_event.set()
TriggerFires == cbPc = "on_wake" /\ cbPc' = "idle"

\* C37: a wake trigger fires only while the state is WAITING, and the wake
\* event is clear whenever the state returns to WAITING: no trigger raised
\* during an interaction (by a callback in flight at pause() or otherwise)
\* leaves an event behind that starts another interaction.
C37_TriggerOnlyWhileWaiting ==
  /\ [][ TriggerFires => state = "WAITING" ]_vars
  /\ [][ (state # "WAITING" /\ state' = "WAITING") => ~wake_event' ]_vars

\* what the cooldown does guarantee: a callback in flight when pause() is
\* called raises no trigger, so while the gate is paused no trigger fires and
\* the wake event stays clear from clear() to resume()
C37_NoTriggerWhilePaused ==
  /\ [][ TriggerFires => active ]_vars
  /\ [](pc \in {"to_listening", "rec_open", "ns_reset", "fin_reset", "ns_set", "fin_set"}
          => ~wake_event /\ cbPc # "on_wake")

----------------------------------------------------------------------------
(* CloudSpec: one call of CloudLLM.stream, its generator consumed to the end *)
(* by speak_streaming through _stream_cloud (a plain `yield from`).          *)

\* the fragments stream yields for its own errors
UnavailableText == "[Cloud LLM unavailable]"
CloudErrorText == "[Cloud error]"

\* the events of an API call: the context manager cannot be entered or the
\* iteration raises ("fail"), or text_stream delivers a text, possibly empty
ApiEvents == {"text", "empty", "fail"}

\* the API calls of the model: nothing follows a failure
ApiScripts ==
  {sc \in UNION {[1..n -> ApiEvents] : n \in 0..MaxApi} :
     \A i \in 1..Len(sc) : sc[i] = "fail" => i = Len(sc)}

CloudInit ==
  /\ VoiceIdle
  /\ useWake = FALSE
  /\ RouterIdle
  /\ SecIdle
  /\ CfgIdle
  /\ api_key \in {"none", "empty", "set"}
  /\ sdk_installed \in BOOLEAN
  /\ client = FALSE
  /\ api_script \in ApiScripts
  /\ api_pos = 0
  /\ cloud_pc = "idle"
  /\ cloud_out = <<>>

CloudUnchanged ==
  /\ UNCHANGED <<api_key, sdk_installed, api_script>>
  /\ UNCHANGED <<ctlVars, wakeVars, recVars, playVars, synthVars>>
  /\ UNCHANGED <<routeVars, secVars, auditVars, cfgVars>>

\* the consumer's first next() on the generator stream(prompt) returned
StreamStart ==
  /\ cloud_pc = "idle"
  /\ cloud_pc' = "ensure"
  /\ UNCHANGED <<client, api_pos, cloud_out>>
  /\ CloudUnchanged

\* try: self._ensure_client() / except RuntimeError: yield the text and return
EnsureClient ==
  /\ cloud_pc = "ensure"
  /\ IF client
     THEN cloud_pc' = "open" /\ UNCHANGED <<client, cloud_out>>
     ELSE IF api_key # "set"
     THEN /\ cloud_out' = Append(cloud_out, UnavailableText)
          /\ cloud_pc' = "returned"
          /\ UNCHANGED client
     ELSE IF ~sdk_installed
     THEN /\ cloud_pc' = "ModuleNotFoundError"
          /\ UNCHANGED <<client, cloud_out>>
     ELSE /\ client' = TRUE
          /\ cloud_pc' = "open"
          /\ UNCHANGED cloud_out
  /\ UNCHANGED api_pos
  /\ CloudUnchanged

\* one event of `with self._client.messages.stream(...) as stream: for text in
\* stream.text_stream: if text: yield text`, inside try / except Exception
StreamEvent ==
  /\ cloud_pc = "open"
  /\ IF api_pos = Len(api_script)
     THEN cloud_pc' = "returned" /\ UNCHANGED <<api_pos, cloud_out>>
     ELSE LET ev == api_script[api_pos + 1]
          IN  /\ api_pos' = api_pos + 1
              /\ cloud_out' = CASE ev = "text" -> Append(cloud_out, "text")
                                [] ev = "empty" -> cloud_out
                                [] ev = "fail" -> Append(cloud_out, CloudErrorText)
              /\ cloud_pc' = IF ev = "fail" THEN "returned" ELSE "open"
  /\ UNCHANGED client
  /\ CloudUnchanged

CloudNext == StreamStart \/ EnsureClient \/ StreamEvent

CloudSpec == CloudInit /\ [][CloudNext]_vars

----------------------------------------------------------------------------
(* Claims about the cloud backend (CloudSpec) *)

\* stream has ended by raising to its consumer
StreamRaised == cloud_pc \notin {"idle", "ensure", "open", "returned"}

\* the client cannot be created
ClientFails == api_key # "set" \/ ~sdk_installed

\* the API call fails at some point
ApiFails == \E i \in 1..Len(api_script) : api_script[i] = "fail"

IsErrorText(f) == f \in {UnavailableText, CloudErrorText}

\* C38: stream never raises to its consumer, and when the client cannot be
\* created or the API call fails, the sequence it has yielded once it ended
\* is the texts delivered before the failure followed by exactly one
\* bracketed error fragment.
C38_NeverRaises ==
  /\ ~StreamRaised
  /\ (cloud_pc = "returned" /\ (ClientFails \/ ApiFails)) =>
       /\ cloud_out # <<>>
       /\ IsErrorText(cloud_out[Len(cloud_out)])
       /\ \A i \in 1..(Len(cloud_out) - 1) : cloud_out[i] = "text"

\* what holds: with the anthropic package importable the statement holds, and
\* without it stream raises only for a call that has a key and no client yet
C38_RaisesOnlyOnImport ==
  /\ StreamRaised =>
       /\ cloud_pc = "ModuleNotFoundError"
       /\ api_key = "set" /\ ~sdk_installed /\ cloud_out = <<>>
  /\ sdk_installed => C38_NeverRaises

----------------------------------------------------------------------------
(* DiskSpec: execute called a few times on a disk that may refuse or accept *)
(* a write of the audit log at any moment.                                  *)

\* the calls made in DiskSpec
DiskCalls ==
  { Call(<<"status">>, <<"n8n">>, <<>>),
    Call(<<"restart">>, <<"redis">>, <<>>),
    Call(<<"delete">>, <<"n8n">>, <<>>) }

DiskNext ==
  \/ \E c \in DiskCalls :
       nexec < MaxDiskCalls /\ ExecCall(c.action, c.container, c.kwargs)
  \/ ExecValidate
  \/ ExecRun
  \/ LogSuccess
  \/ LogDenied
  \/ LogError
  \/ DiskChange

DiskSpec == SecInit /\ [][DiskNext]_vars

\* the ATTEMPT entry of a call
AttemptLine(call) ==
  LogLine(<<"ATTEMPT">>, <<"execute">>, ParamsStr(call), <<>>)

\* the ATTEMPT entries written, in write order
Attempts == SelectSeq(written, LAMBDA l : StatusOf(l) = "ATTEMPT")

\* execute is entered while the disk refuses the write
AttemptFails == xpc = "idle" /\ nexec' # nexec /\ ~disk_ok

\* C40: execute performs no operation whose ATTEMPT entry was not written
\* first: while a call is validated, run or reported as a success, the last
\* ATTEMPT entry written is the entry of that call; every operation executed
\* has its ATTEMPT entry in the log; and a call whose ATTEMPT entry cannot be
\* written ends at once with AuditError, with nothing validated, no operation
\* time recorded, nothing executed and nothing written.
C40_AttemptFirst ==
  /\ [](xpc \in {"validate", "run", "success"} =>
         /\ Attempts # <<>>
         /\ Attempts[Len(Attempts)] = AttemptLine(cur))
  /\ [](/\ Len(executed) <= Len(Attempts)
        /\ \A i \in 1..Len(executed) :
             \E j \in 1..Len(Attempts) :
               Attempts[j] = AttemptLine(Call(executed[i][1], executed[i][2], <<>>)))
  /\ [][ AttemptFails =>
           /\ xpc' = "idle"
           /\ result' = "AuditError"
           /\ UNCHANGED <<operation_times, passed, executed, written,
                          audit_file>> ]_vars
  /\ [][ executed' # executed =>
           /\ xpc = "run"
           /\ executed' = Append(executed, <<cur.action, cur.container>>) ]_vars
  /\ [][ operation_times' # operation_times => xpc = "validate" ]_vars

\* an operation was executed and logged, then the disk refused the ATTEMPT
\* entry of the next call, which ended with AuditError
C40_Witness ==
  /\ xpc = "idle"
  /\ result = "AuditError"
  /\ ~disk_ok
  /\ nexec = 2
  /\ Len(executed) = 1
  /\ Len(Attempts) = 1
  /\ Len(written) = 2

====
